---- MODULE Spec2Model ----
(***************************************************************************)
(* Game coordinator of Jeopardy-Web (jeopardy_v2): the Redis-backed        *)
(* GameStateManager (games/engine.py) and the websocket GameConsumer       *)
(* (games/consumers.py) that drives it.                                    *)
(*                                                                         *)
(* Every Redis or database call of a handler is one step: a connection     *)
(* runs one handler at a time (pc[c] is the list of calls it still has to  *)
(* make) and the steps of different connections interleave.  The Lua       *)
(* script of handle_buzz runs inside Redis and is one step.                *)
(*                                                                         *)
(* The wall clock `now` counts whole seconds.  Unlock tokens are           *)
(* microsecond stamps of that clock; `stamp` is the last stamp handed out  *)
(* and every mint reads a later one.                                       *)
(***************************************************************************)
EXTENDS Integers, Sequences, FiniteSets, TLC

\* ---------------------------------------------------------------- bounds
MaxTime == 2       \* the clock stops ticking here
MaxToken == 2      \* unlock tokens minted in one behaviour
MaxJudged == 1     \* |score| stays within MaxJudged * 200
MaxCommands == 3   \* host commands in one behaviour of the gateway

\* ------------------------------------------------------- program constants
BUZZ_COOLDOWN_SECONDS == 2

\* ------------------------------------------------------------ input sets
Seats == {1, 2}          \* player_number of the roster (initialize_game)
Clues == {1, 2}          \* clue ids of the episode's single round
Values == {200}          \* clue value sent with judge_answer
\* clue_id of a reveal_clue frame; 3 is the id of a clue of another episode
ClueIds == Clues \cup {3}
Conns == {1, 2}          \* websocket connections of the room
Host == {1}              \* the connection the host's commands arrive on
Tokens == 0 .. MaxToken  \* unlock_token of a buzz frame; 0: missing or empty

NoTime == -1             \* no cooldown entry for the seat
NoToken == 0             \* field unlock_token absent / token missing
NoSeat == 0              \* winner / current_player unset
NoClue == 0              \* current_clue = ''
NoWager == -1            \* no wager field for the seat
NoneSeat == -1           \* str(None), stored by set_dd_state for a missing seat

VARIABLES
    state,              \* hash game:{id}:state
    scores,             \* hash game:{id}:scores
    buzzer,             \* hash game:{id}:buzzer
    order,              \* list game:{id}:buzzer:order
    attempted_players,  \* set  game:{id}:attempted_players
    cooldowns,          \* hash game:{id}:buzz_cooldowns
    current_player,     \* key  game:{id}:current_player
    dd_state,           \* hash game:{id}:dd_state
    participant,        \* GameParticipant.score per seat (database)
    lastAction,         \* the GameAction row appended last (database)
    bcast,              \* the event sent last to the room group
    now,                \* time.time(), in seconds
    stamp,              \* the last microsecond stamp minted as a token
    pc,                 \* per connection: the calls its handler has left
    loc,                \* per connection: the handler's local variables
    epoch,              \* accepted buzz results since the buzzer hash was last deleted
    awaitingEnable,     \* a reveal_clue was received and no enable_buzzer since
    commands,           \* host commands received so far (counted where the gateway is budgeted)
    fj_wagers,          \* hash game:{id}:fj_state:wagers
    fj_judged,          \* hash game:{id}:fj_state:judged
    game_status,        \* Game.status (database)
    reply,              \* per connection: the frame sent last to that client alone
    audit_delta,        \* per seat: the signed score deltas of its GameAction rows, summed
    roster,             \* the players of the GameParticipant rows, by player_number
    response            \* the HTTP response returned last by the REST surface

redisVars == <<state, scores, buzzer, order, attempted_players, cooldowns,
               current_player, dd_state>>
dbVars == <<participant, lastAction>>
finalVars == <<fj_wagers, fj_judged, game_status, reply, audit_delta, roster,
               response>>
vars == <<state, scores, buzzer, order, attempted_players, cooldowns,
          current_player, dd_state, participant, lastAction, bcast, now,
          stamp, pc, loc, epoch, awaitingEnable, commands, fj_wagers,
          fj_judged, game_status, reply, audit_delta, roster, response>>

\* ------------------------------------------------------------- the stores
EmptyBuzzer ==
    [locked |-> "nil", unlock_token |-> NoToken, count |-> 0,
     winner |-> NoSeat, players |-> {}]

EmptyDD == [stage |-> "", player_number |-> NoSeat, wager |-> NoWager]

NoLoc ==
    [op |-> "idle", player_number |-> NoSeat, correct |-> FALSE, value |-> 0,
     clue_id |-> NoClue, unlock_token |-> NoToken, revealed |-> <<>>,
     new_score |-> 0, current_player |-> NoSeat, scores |-> <<>>, keys |-> {},
     pre_scores |-> <<>>, pre_player |-> NoSeat, wager |-> NoWager,
     round_type |-> "", player_score |-> 0, dd_state |-> EmptyDD]

InSeq(x, q) == \E i \in 1 .. Len(q) : q[i] = x

Min(S) == CHOOSE x \in S : \A y \in S : x <= y

\* the session once the board of `round` is up with daily doubles `dd`, the
\* seats holding the scores `sc` in Redis and in their participant rows;
\* episode_id 0 and round '' stand for a state hash without these fields
InitWith(episode_id, dd, round, sc) ==
    /\ state = [episode_id |-> episode_id, current_round |-> round,
                current_clue |-> NoClue, revealed_clues |-> <<>>,
                daily_doubles |-> dd]
    /\ scores = sc
    /\ buzzer = EmptyBuzzer
    /\ order = <<>>
    /\ attempted_players = {}
    /\ cooldowns = [s \in Seats |-> NoTime]
    /\ current_player = NoSeat
    /\ dd_state = EmptyDD
    /\ participant = sc
    /\ lastAction = [action_type |-> "none"]
    /\ bcast = [type |-> "none"]
    /\ now = 0
    /\ stamp = 0
    /\ pc = [c \in Conns |-> <<>>]
    /\ loc = [c \in Conns |-> NoLoc]
    /\ epoch = <<>>
    /\ awaitingEnable = FALSE
    /\ commands = 0
    /\ fj_wagers = [s \in Seats |-> NoWager]
    /\ fj_judged = [s \in Seats |-> "nil"]
    /\ game_status = "active"
    /\ reply = [c \in Conns |-> [type |-> "none"]]
    /\ audit_delta = sc
    /\ roster = [n \in 1 .. Cardinality(Seats) |-> n]
    /\ response = [status |-> 0]

\* select_daily_doubles: one clue drawn from the single round (the episode
\* modelled here has no double round)
Init ==
    \E dd \in {<<c>> : c \in Clues} :
        InitWith(1, dd, "single", [s \in Seats |-> 0])

\* --------------------------------------------------- handle_buzz (engine)
\* the cooldown test with the boundary second still inside the cooldown
InCooldownInclusive(last, t) ==
    last # NoTime /\ t - last <= BUZZ_COOLDOWN_SECONDS

InCooldown(last, t) == last # NoTime /\ t - last < BUZZ_COOLDOWN_SECONDS

IsLocked(b) == b.locked = "true"

\* the token test that only asks for some token to be sent
TokenRejectedWhenMissing(b, tok) == b.unlock_token # NoToken /\ tok = NoToken

TokenRejected(b, tok) ==
    b.unlock_token # NoToken /\ (tok = NoToken \/ tok # b.unlock_token)

\* the script without its HEXISTS test
AlreadyBuzzedNever(b, s) == FALSE

AlreadyBuzzed(b, s) == s \in b.players

\* the script taking every accepted buzz for the winner
RecordBuzzLastWins(b, s) ==
    [b EXCEPT !.count = @ + 1, !.players = @ \cup {s},
              !.locked = "1", !.winner = s]

RecordBuzz(b, s) ==
    LET count == b.count + 1 IN
    IF count = 1
    THEN [b EXCEPT !.count = count, !.players = @ \cup {s},
                   !.locked = "1", !.winner = s]
    ELSE [b EXCEPT !.count = count, !.players = @ \cup {s}]

\* The Lua script: its return table and the keys as it leaves them.
LuaScript(s, tok, t) ==
    LET same == [buzzer |-> buzzer, order |-> order, cooldowns |-> cooldowns]
        cooled == [buzzer |-> buzzer, order |-> order,
                   cooldowns |-> [cooldowns EXCEPT ![s] = t]]
    IN
    IF s \in attempted_players
    THEN [ret |-> <<0, -3, -1, 0>>, keys |-> same]
    ELSE IF InCooldown(cooldowns[s], t)
    THEN [ret |-> <<0, -2, -1, BUZZ_COOLDOWN_SECONDS - (t - cooldowns[s])>>,
          keys |-> same]
    ELSE IF IsLocked(buzzer)
    THEN [ret |-> <<0, -1, -1, BUZZ_COOLDOWN_SECONDS>>, keys |-> cooled]
    ELSE IF TokenRejected(buzzer, tok)
    THEN [ret |-> <<0, -1, -1, BUZZ_COOLDOWN_SECONDS>>, keys |-> cooled]
    ELSE IF AlreadyBuzzed(buzzer, s)
    THEN [ret |-> <<0, -1, -1, 0>>, keys |-> same]
    ELSE LET b == RecordBuzz(buzzer, s) IN
         [ret |-> <<1, b.count, IF b.winner = NoSeat THEN -1 ELSE b.winner, 0>>,
          keys |-> [buzzer |-> b, order |-> Append(order, s),
                    cooldowns |-> [cooldowns EXCEPT ![s] = t]]]

\* The dict handle_buzz builds from the script's return table.
BuzzResult(ret) ==
    [accepted |-> ret[1] # 0,
     position |-> ret[2],
     winner |-> IF ret[3] > 0 THEN ret[3] ELSE NoSeat,
     cooldown |-> (ret[2] = -2) \/ (ret[2] = -1 /\ ret[4] > 0),
     cooldown_remaining |-> IF ret[4] > 0 THEN ret[4] ELSE 0]

\* GameConsumer.handle_buzz: the script, the audit row, the broadcast.
HandleBuzz(s, tok) ==
    LET run == LuaScript(s, tok, now)
        result == BuzzResult(run.ret)
    IN
    /\ UNCHANGED <<finalVars, pc, loc, now, stamp, awaitingEnable, state, scores,
                   attempted_players, current_player, dd_state, participant>>
    /\ buzzer' = run.keys.buzzer
    /\ order' = run.keys.order
    /\ cooldowns' = run.keys.cooldowns
    /\ lastAction' = [action_type |-> "buzz", player_number |-> s]
    /\ bcast' = [type |-> "buzz_result", player_number |-> s,
                 accepted |-> result.accepted, winner |-> result.winner,
                 position |-> result.position, cooldown |-> result.cooldown,
                 cooldown_remaining |-> result.cooldown_remaining]
    /\ epoch' = IF result.accepted
                THEN Append(epoch, [player_number |-> s,
                                    position |-> result.position,
                                    winner |-> result.winner])
                ELSE epoch

Tick ==
    /\ now < MaxTime
    /\ now' = now + 1
    /\ UNCHANGED <<finalVars, redisVars, dbVars, bcast, stamp, pc, loc, epoch,
                   awaitingEnable>>

\* two seconds pass at once
Wait ==
    /\ now + BUZZ_COOLDOWN_SECONDS <= MaxTime
    /\ now' = now + BUZZ_COOLDOWN_SECONDS
    /\ UNCHANGED <<finalVars, redisVars, dbVars, bcast, stamp, pc, loc, epoch,
                   awaitingEnable>>

\* ------------------------------------------------------- handler plumbing
Idle(c) == pc[c] = <<>>

At(c, label) == pc[c] # <<>> /\ Head(pc[c]) = label

\* the connection starts handler `op` with the calls `steps` and locals `l`
Begin(c, op, steps, l) ==
    /\ Idle(c)
    /\ pc' = [pc EXCEPT ![c] = steps]
    /\ loc' = [loc EXCEPT ![c] = [l EXCEPT !.op = op]]
    /\ awaitingEnable' = IF op = "reveal_clue" THEN TRUE
                         ELSE IF op = "enable_buzzer" THEN FALSE
                         ELSE awaitingEnable

\* the call at the head of pc[c] returns; the handler goes on with `steps`
Goto(c, steps, l) ==
    /\ pc' = [pc EXCEPT ![c] = steps]
    /\ loc' = [loc EXCEPT ![c] = IF steps = <<>> THEN NoLoc ELSE l]
    /\ UNCHANGED awaitingEnable

Advance(c, l) == Goto(c, Tail(pc[c]), l)

Next_(c) == Advance(c, loc[c])


\* ------------------------------------------ Redis calls shared by handlers
\* redis.delete(buzzer_key): reset_buzzer, clear_buzzer_for_retry
DelBuzzer(c) ==
    /\ At(c, "del_buzzer")
    /\ buzzer' = EmptyBuzzer
    /\ epoch' = <<>>
    /\ Next_(c)
    /\ UNCHANGED <<finalVars, state, scores, order, attempted_players, cooldowns,
                   current_player, dd_state, dbVars, bcast, now, stamp>>

\* redis.delete(buzzer_key:order)
DelOrder(c) ==
    /\ At(c, "del_order")
    /\ order' = <<>>
    /\ Next_(c)
    /\ UNCHANGED <<finalVars, state, scores, buzzer, attempted_players, cooldowns,
                   current_player, dd_state, dbVars, bcast, now, stamp, epoch>>

\* redis.delete(attempted_players_key): reset_buzzer only
DelAttempted(c) ==
    /\ At(c, "del_attempted")
    /\ attempted_players' = {}
    /\ Next_(c)
    /\ UNCHANGED <<finalVars, state, scores, buzzer, order, cooldowns, current_player,
                   dd_state, dbVars, bcast, now, stamp, epoch>>

\* clear_dd_state
ClearDDState(c) ==
    /\ At(c, "clear_dd_state")
    /\ dd_state' = EmptyDD
    /\ Next_(c)
    /\ UNCHANGED <<finalVars, state, scores, buzzer, order, attempted_players, cooldowns,
                   current_player, dbVars, bcast, now, stamp, epoch>>

ResetBuzzerSteps == <<"del_buzzer", "del_order", "del_attempted">>

\* ------------------------------------------------------ handle_reveal_clue
StartRevealClue(c, clue) ==
    /\ Begin(c, "reveal_clue",
             <<"rc_get_state", "rc_update_state">> \o ResetBuzzerSteps
                 \o <<"lock_buzzer", "rv_get_daily_doubles">>,
             [NoLoc EXCEPT !.clue_id = clue])
    /\ UNCHANGED <<finalVars, redisVars, dbVars, bcast, now, stamp, epoch>>

\* reveal_clue: state = self.get_state(); revealed = state['revealed_clues']
RevealGetState(c) ==
    /\ At(c, "rc_get_state")
    /\ Advance(c, [loc[c] EXCEPT !.revealed = state.revealed_clues])
    /\ UNCHANGED <<finalVars, redisVars, dbVars, bcast, now, stamp, epoch>>

\* reveal_clue appending without looking the clue up in the list it read
RevealUpdateStateAlways(c) ==
    /\ At(c, "rc_update_state")
    /\ state' = [state EXCEPT !.current_clue = loc[c].clue_id,
                              !.revealed_clues = Append(loc[c].revealed,
                                                        loc[c].clue_id)]
    /\ Next_(c)
    /\ UNCHANGED <<finalVars, scores, buzzer, order, attempted_players,
                   cooldowns, current_player, dd_state, dbVars, bcast, now,
                   stamp, epoch>>

\* reveal_clue: if clue_id not in revealed: append and update_state
RevealUpdateState(c) ==
    /\ At(c, "rc_update_state")
    /\ state' = IF InSeq(loc[c].clue_id, loc[c].revealed)
                THEN state
                ELSE [state EXCEPT !.current_clue = loc[c].clue_id,
                                   !.revealed_clues = Append(loc[c].revealed,
                                                             loc[c].clue_id)]
    /\ Next_(c)
    /\ UNCHANGED <<finalVars, scores, buzzer, order, attempted_players, cooldowns,
                   current_player, dd_state, dbVars, bcast, now, stamp, epoch>>

\* lock_buzzer: hset(buzzer_key, 'locked', 'true')
LockBuzzer(c) ==
    /\ At(c, "lock_buzzer")
    /\ buzzer' = [buzzer EXCEPT !.locked = "true"]
    /\ Next_(c)
    /\ UNCHANGED <<finalVars, state, scores, order, attempted_players, cooldowns,
                   current_player, dd_state, dbVars, bcast, now, stamp, epoch>>

\* the reveal that takes every clue for an ordinary one
RevealGetDailyDoublesNever(c) ==
    /\ At(c, "rv_get_daily_doubles")
    /\ Goto(c, <<"rv_send_clue_revealed">>, loc[c])
    /\ UNCHANGED <<finalVars, redisVars, dbVars, bcast, now, stamp, epoch>>

\* daily_doubles = get_daily_doubles(); is_daily_double = clue_id in daily_doubles
RevealGetDailyDoubles(c) ==
    /\ At(c, "rv_get_daily_doubles")
    /\ Goto(c, IF InSeq(loc[c].clue_id, state.daily_doubles)
               THEN <<"rv_get_current_player">>
               ELSE <<"rv_send_clue_revealed">>, loc[c])
    /\ UNCHANGED <<finalVars, redisVars, dbVars, bcast, now, stamp, epoch>>

\* current_player = get_current_player(); if None: current_player = 1
RevealGetCurrentPlayer(c) ==
    /\ At(c, "rv_get_current_player")
    /\ IF current_player = NoSeat
       THEN Goto(c, <<"rv_set_current_player", "rv_set_dd_state",
                      "rv_send_daily_double_detected">>,
                 [loc[c] EXCEPT !.current_player = 1])
       ELSE Goto(c, <<"rv_set_dd_state", "rv_send_daily_double_detected">>,
                 [loc[c] EXCEPT !.current_player = current_player])
    /\ UNCHANGED <<finalVars, redisVars, dbVars, bcast, now, stamp, epoch>>

\* set_current_player(1)
RevealSetCurrentPlayer(c) ==
    /\ At(c, "rv_set_current_player")
    /\ current_player' = 1
    /\ Next_(c)
    /\ UNCHANGED <<finalVars, state, scores, buzzer, order, attempted_players, cooldowns,
                   dd_state, dbVars, bcast, now, stamp, epoch>>

\* set_dd_state({'stage': 'detected', 'player_number': current_player})
RevealSetDDState(c) ==
    /\ At(c, "rv_set_dd_state")
    /\ dd_state' = [dd_state EXCEPT !.stage = "detected",
                                    !.player_number = loc[c].current_player]
    /\ Next_(c)
    /\ UNCHANGED <<finalVars, state, scores, buzzer, order, attempted_players, cooldowns,
                   current_player, dbVars, bcast, now, stamp, epoch>>

RevealSendDailyDoubleDetected(c) ==
    /\ At(c, "rv_send_daily_double_detected")
    /\ bcast' = [type |-> "daily_double_detected", clue_id |-> loc[c].clue_id,
                 player_number |-> loc[c].current_player]
    /\ Next_(c)
    /\ UNCHANGED <<finalVars, redisVars, dbVars, now, stamp, epoch>>

\* get_clue_data: the row Clue.objects.get(id=clue_id), of whatever episode;
\* None (here a record of the id alone) when the frame had no clue_id
GetClueData(clue_id) ==
    IF clue_id = NoClue
    THEN [id |-> NoClue]
    ELSE [id |-> clue_id, question |-> <<"question", clue_id>>,
          answer |-> <<"answer", clue_id>>]

RevealSendClueRevealed(c) ==
    /\ At(c, "rv_send_clue_revealed")
    /\ bcast' = [type |-> "clue_revealed", clue |-> GetClueData(loc[c].clue_id)]
    /\ Next_(c)
    /\ UNCHANGED <<finalVars, redisVars, dbVars, now, stamp, epoch>>

\* ---------------------------------------------------- handle_enable_buzzer
StartEnableBuzzer(c) ==
    /\ stamp < MaxToken
    /\ Begin(c, "enable_buzzer",
             <<"ub_hset_locked", "ub_hset_unlock_token", "en_get_state",
               "en_send_buzzer_enabled">>, NoLoc)
    /\ UNCHANGED <<finalVars, redisVars, dbVars, bcast, now, stamp, epoch>>

\* unlock_buzzer: unlock_token = int(time.time() * 1_000_000);
\*                hset(buzzer_key, 'locked', 'false')
UnlockHsetLocked(c) ==
    /\ At(c, "ub_hset_locked")
    /\ stamp' = stamp + 1
    /\ buzzer' = [buzzer EXCEPT !.locked = "false"]
    /\ Advance(c, [loc[c] EXCEPT !.unlock_token = stamp + 1])
    /\ UNCHANGED <<finalVars, state, scores, order, attempted_players, cooldowns,
                   current_player, dd_state, dbVars, bcast, now, epoch>>

\* unlock_buzzer: hset(buzzer_key, 'unlock_token', str(unlock_token))
UnlockHsetToken(c) ==
    /\ At(c, "ub_hset_unlock_token")
    /\ buzzer' = [buzzer EXCEPT !.unlock_token = loc[c].unlock_token]
    /\ Next_(c)
    /\ UNCHANGED <<finalVars, state, scores, order, attempted_players, cooldowns,
                   current_player, dd_state, dbVars, bcast, now, stamp, epoch>>

\* state = get_state(); clue_id = state.get('current_clue')
EnableGetState(c) ==
    /\ At(c, "en_get_state")
    /\ Advance(c, [loc[c] EXCEPT !.clue_id = state.current_clue])
    /\ UNCHANGED <<finalVars, redisVars, dbVars, bcast, now, stamp, epoch>>

EnableSendBuzzerEnabled(c) ==
    /\ At(c, "en_send_buzzer_enabled")
    /\ bcast' = [type |-> "buzzer_enabled", clue_id |-> loc[c].clue_id,
                 unlock_token |-> loc[c].unlock_token]
    /\ Next_(c)
    /\ UNCHANGED <<finalVars, redisVars, dbVars, now, stamp, epoch>>


\* ----------------------------------------------------- handle_judge_answer
\* delta = value if correct else -value
\* the delta with the sign of an incorrect answer lost
ScoreDeltaAlwaysAdds(correct, value) == value

ScoreDelta(correct, value) == IF correct THEN value ELSE -value

ScoreCap == MaxJudged * 200

StartJudgeAnswer(c, s, correct, value) ==
    /\ (IF s \in DOMAIN scores THEN scores[s] ELSE 0)
          + ScoreDelta(correct, value) \in -ScoreCap .. ScoreCap
    /\ Begin(c, "judge_answer",
             <<"ja_update_score", "ja_persist">>
                 \o (IF correct THEN <<"ja_set_current_player">> ELSE <<>>)
                 \o <<"ja_get_current_player", "ja_log_action",
                      "ja_send_answer_judged">>,
             [NoLoc EXCEPT !.player_number = s, !.correct = correct,
                           !.value = value, !.pre_scores = scores,
                           !.pre_player = current_player])
    /\ UNCHANGED <<finalVars, redisVars, dbVars, bcast, now, stamp, epoch>>

\* update_score: hincrby(scores_key, player_number, delta); HINCRBY takes a
\* field the hash does not hold for 0 and creates it
JudgeUpdateScore(c) ==
    LET s == loc[c].player_number
        new_score == (IF s \in DOMAIN scores THEN scores[s] ELSE 0)
                        + ScoreDelta(loc[c].correct, loc[c].value)
    IN
    /\ At(c, "ja_update_score")
    /\ scores' = [n \in DOMAIN scores \cup {s} |->
                     IF n = s THEN new_score ELSE scores[n]]
    /\ Advance(c, [loc[c] EXCEPT !.new_score = new_score])
    /\ UNCHANGED <<finalVars, state, buzzer, order, attempted_players, cooldowns,
                   current_player, dd_state, dbVars, bcast, now, stamp, epoch>>

\* update_participant_score(player_number, new_score); a seat without a
\* participant row (GameParticipant.DoesNotExist) only prints a warning
JudgePersist(c) ==
    /\ At(c, "ja_persist")
    /\ participant' = IF loc[c].player_number \in DOMAIN participant
                      THEN [participant EXCEPT
                               ![loc[c].player_number] = loc[c].new_score]
                      ELSE participant
    /\ Next_(c)
    /\ UNCHANGED <<finalVars, redisVars, lastAction, bcast, now, stamp, epoch>>

\* if correct: set_current_player(player_number)
JudgeSetCurrentPlayer(c) ==
    /\ At(c, "ja_set_current_player")
    /\ current_player' = loc[c].player_number
    /\ Next_(c)
    /\ UNCHANGED <<finalVars, state, scores, buzzer, order, attempted_players, cooldowns,
                   dd_state, dbVars, bcast, now, stamp, epoch>>

\* current_player = get_current_player()
JudgeGetCurrentPlayer(c) ==
    /\ At(c, "ja_get_current_player")
    /\ Advance(c, [loc[c] EXCEPT !.current_player = current_player])
    /\ UNCHANGED <<finalVars, redisVars, dbVars, bcast, now, stamp, epoch>>

JudgeLogAction(c) ==
    /\ At(c, "ja_log_action")
    /\ lastAction' = [action_type |-> "judge_answer",
                      player_number |-> loc[c].player_number,
                      correct |-> loc[c].correct, value |-> loc[c].value,
                      new_score |-> loc[c].new_score]
    /\ audit_delta' =
          [n \in DOMAIN audit_delta \cup {loc[c].player_number} |->
              (IF n \in DOMAIN audit_delta THEN audit_delta[n] ELSE 0)
                 + (IF n = loc[c].player_number
                    THEN ScoreDelta(loc[c].correct, loc[c].value) ELSE 0)]
    /\ Next_(c)
    /\ UNCHANGED <<fj_wagers, fj_judged, game_status, reply, roster, response,
                   redisVars, participant, bcast, now, stamp, epoch>>

JudgeSendAnswerJudged(c) ==
    /\ At(c, "ja_send_answer_judged")
    /\ bcast' = [type |-> "answer_judged",
                 player_number |-> loc[c].player_number,
                 correct |-> loc[c].correct, value |-> loc[c].value,
                 new_score |-> loc[c].new_score,
                 current_player |-> loc[c].current_player]
    /\ Next_(c)
    /\ UNCHANGED <<finalVars, redisVars, dbVars, now, stamp, epoch>>

\* -------------------------------------------------------- handle_next_clue
StartNextClue(c) ==
    /\ Begin(c, "next_clue",
             ResetBuzzerSteps \o <<"nc_clear_current_clue", "clear_dd_state",
                                   "nc_get_scores", "nc_get_state",
                                   "nc_send_return_to_board">>, NoLoc)
    /\ UNCHANGED <<finalVars, redisVars, dbVars, bcast, now, stamp, epoch>>

\* update_state({'current_clue': ''})
NextClearCurrentClue(c) ==
    /\ At(c, "nc_clear_current_clue")
    /\ state' = [state EXCEPT !.current_clue = NoClue]
    /\ Next_(c)
    /\ UNCHANGED <<finalVars, scores, buzzer, order, attempted_players, cooldowns,
                   current_player, dd_state, dbVars, bcast, now, stamp, epoch>>

NextGetScores(c) ==
    /\ At(c, "nc_get_scores")
    /\ Advance(c, [loc[c] EXCEPT !.scores = scores])
    /\ UNCHANGED <<finalVars, redisVars, dbVars, bcast, now, stamp, epoch>>

NextGetState(c) ==
    /\ At(c, "nc_get_state")
    /\ Advance(c, [loc[c] EXCEPT !.revealed = state.revealed_clues])
    /\ UNCHANGED <<finalVars, redisVars, dbVars, bcast, now, stamp, epoch>>

NextSendReturnToBoard(c) ==
    /\ At(c, "nc_send_return_to_board")
    /\ bcast' = [type |-> "return_to_board", scores |-> loc[c].scores,
                 revealed_clues |-> loc[c].revealed]
    /\ Next_(c)
    /\ UNCHANGED <<finalVars, redisVars, dbVars, now, stamp, epoch>>

\* ------------------------------------------------------- handle_reset_game
StartResetGame(c) ==
    /\ Begin(c, "reset_game",
             <<"rg_hset_state", "rg_get_scores", "rg_zero_score">>
                 \o ResetBuzzerSteps
                 \o <<"clear_dd_state", "rg_del_current_player", "rg_persist",
                      "rg_send_game_reset">>, NoLoc)
    /\ UNCHANGED <<finalVars, redisVars, dbVars, bcast, now, stamp, epoch>>

\* reset_game leaving the round as it is
ResetHsetStateKeepsRound(c) ==
    /\ At(c, "rg_hset_state")
    /\ state' = [state EXCEPT !.current_clue = NoClue,
                              !.revealed_clues = <<>>]
    /\ Next_(c)
    /\ UNCHANGED <<finalVars, scores, buzzer, order, attempted_players, cooldowns,
                   current_player, dd_state, dbVars, bcast, now, stamp, epoch>>

\* reset_game: hset(state_key, mapping=reset_state)
ResetHsetState(c) ==
    /\ At(c, "rg_hset_state")
    /\ state' = [state EXCEPT !.current_round = "single",
                              !.current_clue = NoClue,
                              !.revealed_clues = <<>>]
    /\ Next_(c)
    /\ UNCHANGED <<finalVars, scores, buzzer, order, attempted_players, cooldowns,
                   current_player, dd_state, dbVars, bcast, now, stamp, epoch>>

\* reset_game: scores = self.get_scores()
ResetGetScores(c) ==
    /\ At(c, "rg_get_scores")
    /\ Advance(c, [loc[c] EXCEPT !.scores = scores, !.keys = DOMAIN scores])
    /\ UNCHANGED <<finalVars, redisVars, dbVars, bcast, now, stamp, epoch>>

\* reset_game: for player_number in scores.keys(): hset(scores_key, player_number, 0)
\* (initialize_game: for player_num in player_numbers, the same hset)
ResetZeroScore(c) ==
    LET s == Min(loc[c].keys)
        rest == loc[c].keys \ {s}
    IN
    /\ At(c, "rg_zero_score")
    /\ scores' = [scores EXCEPT ![s] = 0]
    /\ IF rest = {}
       THEN Advance(c, [loc[c] EXCEPT !.keys = DOMAIN loc[c].scores])
       ELSE Goto(c, pc[c], [loc[c] EXCEPT !.keys = rest])
    /\ UNCHANGED <<finalVars, state, buzzer, order, attempted_players, cooldowns,
                   current_player, dd_state, dbVars, bcast, now, stamp, epoch>>

\* reset_game: delete(current_player_key)
ResetDelCurrentPlayer(c) ==
    /\ At(c, "rg_del_current_player")
    /\ current_player' = NoSeat
    /\ Next_(c)
    /\ UNCHANGED <<finalVars, state, scores, buzzer, order, attempted_players, cooldowns,
                   dd_state, dbVars, bcast, now, stamp, epoch>>

\* for player_number, score in reset_scores.items(): update_participant_score
ResetPersist(c) ==
    LET s == Min(loc[c].keys)
        rest == loc[c].keys \ {s}
    IN
    /\ At(c, "rg_persist")
    /\ participant' = IF s \in DOMAIN participant
                      THEN [participant EXCEPT ![s] = 0] ELSE participant
    /\ IF rest = {}
       THEN Next_(c)
       ELSE Goto(c, pc[c], [loc[c] EXCEPT !.keys = rest])
    /\ UNCHANGED <<finalVars, redisVars, lastAction, bcast, now, stamp, epoch>>

ResetSendGameReset(c) ==
    /\ At(c, "rg_send_game_reset")
    /\ bcast' = [type |-> "game_reset",
                 scores |-> [s \in DOMAIN loc[c].scores |-> 0]]
    /\ Next_(c)
    /\ UNCHANGED <<finalVars, redisVars, dbVars, now, stamp, epoch>>

\* ------------------------------------------------------ handle_start_round
\* round_type = content.get('round'): '' stands for a frame without the
\* field (None, which update_state stores as '')
StartStartRound(c, round_type) ==
    /\ Begin(c, "start_round",
             <<"sr_update_state", "nc_get_state", "sr_clear_revealed_clues">>
                 \o (IF round_type = "double" THEN <<"sr_get_scores">> ELSE <<>>)
                 \o <<"ja_get_current_player", "sr_log_action",
                      "sr_send_round_changed">>,
             [NoLoc EXCEPT !.round_type = round_type])
    /\ UNCHANGED <<finalVars, redisVars, dbVars, bcast, now, stamp, epoch>>

\* update_state({'current_round': round_type})
StartRoundUpdateState(c) ==
    /\ At(c, "sr_update_state")
    /\ state' = [state EXCEPT !.current_round = loc[c].round_type]
    /\ Next_(c)
    /\ UNCHANGED <<finalVars, scores, buzzer, order, attempted_players, cooldowns,
                   current_player, dd_state, dbVars, bcast, now, stamp, epoch>>

\* update_state({'revealed_clues': []})
StartRoundClearRevealedClues(c) ==
    /\ At(c, "sr_clear_revealed_clues")
    /\ state' = [state EXCEPT !.revealed_clues = <<>>]
    /\ Next_(c)
    /\ UNCHANGED <<finalVars, scores, buzzer, order, attempted_players, cooldowns,
                   current_player, dd_state, dbVars, bcast, now, stamp, epoch>>

\* min keeping the last item of the smallest score it meets
lowest_player_last(sc) ==
    CHOOSE k \in DOMAIN sc :
        /\ \A j \in DOMAIN sc : j < k => sc[j] >= sc[k]
        /\ \A j \in DOMAIN sc : j > k => sc[j] > sc[k]

\* min(scores.items(), key=lambda x: x[1])[0]: min keeps the first item of
\* the smallest score it meets, and get_scores lists the fields of the hash
\* in the order they were set, which is the order of the seats
lowest_player(sc) ==
    CHOOSE k \in DOMAIN sc :
        /\ \A j \in DOMAIN sc : j < k => sc[j] > sc[k]
        /\ \A j \in DOMAIN sc : j > k => sc[j] >= sc[k]

\* scores = get_scores(); if scores: lowest_player = min(...), and
\* set_current_player(lowest_player) is the next call
StartRoundGetScores(c) ==
    /\ At(c, "sr_get_scores")
    /\ IF DOMAIN scores = {}
       THEN Advance(c, [loc[c] EXCEPT !.scores = scores])
       ELSE Goto(c, <<"ja_set_current_player">> \o Tail(pc[c]),
                 [loc[c] EXCEPT !.scores = scores,
                                !.player_number = lowest_player(scores)])
    /\ UNCHANGED <<finalVars, redisVars, dbVars, bcast, now, stamp, epoch>>

StartRoundLogAction(c) ==
    /\ At(c, "sr_log_action")
    /\ lastAction' = [action_type |-> "start_round",
                      round |-> loc[c].round_type]
    /\ Next_(c)
    /\ UNCHANGED <<finalVars, redisVars, participant, bcast, now, stamp, epoch>>

StartRoundSendRoundChanged(c) ==
    /\ At(c, "sr_send_round_changed")
    /\ bcast' = [type |-> "round_changed", round |-> loc[c].round_type,
                 revealed_clues |-> <<>>,
                 current_player |-> loc[c].current_player]
    /\ Next_(c)
    /\ UNCHANGED <<finalVars, redisVars, dbVars, now, stamp, epoch>>

\* ------------------------------------------------- Daily Double handlers
\* content['wager'] of a submit_wager frame
Wagers == {4, 5, 1000, 1001, 2000, 2001, 2500, 2501}

\* send_json({'type': 'error', ...}) to the sender alone; the handler ends
SendError(c, message) ==
    /\ reply' = [reply EXCEPT ![c] = [type |-> "error", message |-> message]]
    /\ Goto(c, <<>>, NoLoc)

\* set_dd_state: hset(dd_state_key, mapping) writes the fields of the
\* mapping and keeps the other fields of the hash
HsetDDState(mapping) ==
    [f \in DOMAIN EmptyDD |->
        IF mapping[f] = EmptyDD[f] THEN dd_state[f] ELSE mapping[f]]

\* dd_state = get_dd_state(), in reveal_daily_double, show_dd_clue,
\* submit_dd_answer and judge_dd_answer (wager = dd_state.get('wager', 0)):
\* int(value) of the player_number field raises on 'None', and receive_json
\* answers the exception with an error frame
GetDDState(c) ==
    /\ At(c, "get_dd_state")
    /\ IF dd_state.player_number = NoneSeat
       THEN /\ SendError(c, "invalid literal for int()")
            /\ UNCHANGED fj_wagers
            /\ UNCHANGED fj_judged
            /\ UNCHANGED game_status
            /\ UNCHANGED <<audit_delta, roster, response>>
       ELSE /\ Advance(c, [loc[c] EXCEPT
                              !.dd_state = dd_state,
                              !.wager = IF dd_state.wager = NoWager
                                        THEN 0 ELSE dd_state.wager])
            /\ UNCHANGED finalVars
    /\ UNCHANGED <<redisVars, dbVars, bcast, now, stamp, epoch>>

\* the dict a handler passes to set_dd_state: stage 'revealed' and the seat
\* it read (str(None) when there was none); stage 'wagering', the seat and
\* the wager of the frame; or the dict it read with the stage replaced
DDStateArgument(l) ==
    CASE l.op = "reveal_daily_double" ->
           [stage |-> "revealed",
            player_number |-> IF l.dd_state.player_number = NoSeat
                              THEN NoneSeat ELSE l.dd_state.player_number,
            wager |-> NoWager]
      [] l.op = "submit_wager" ->
           [stage |-> "wagering", player_number |-> l.player_number,
            wager |-> l.wager]
      [] l.op = "judge_dd_answer" -> [l.dd_state EXCEPT !.stage = "judged"]
      [] OTHER -> [l.dd_state EXCEPT !.stage = "answering"]

\* set_dd_state(state_dict)
SetDDState(c) ==
    /\ At(c, "set_dd_state")
    /\ dd_state' = HsetDDState(DDStateArgument(loc[c]))
    /\ Next_(c)
    /\ UNCHANGED <<finalVars, state, scores, buzzer, order, attempted_players,
                   cooldowns, current_player, dbVars, bcast, now, stamp, epoch>>

\* handle_reveal_daily_double (get_participants only looks up the display
\* name, which is not modelled)
StartRevealDailyDouble(c) ==
    /\ Begin(c, "reveal_daily_double",
             <<"get_dd_state", "set_dd_state",
               "rd_send_daily_double_revealed">>, NoLoc)
    /\ UNCHANGED <<finalVars, redisVars, dbVars, bcast, now, stamp, epoch>>

RevealDDSendDailyDoubleRevealed(c) ==
    /\ At(c, "rd_send_daily_double_revealed")
    /\ bcast' = [type |-> "daily_double_revealed",
                 player_number |-> loc[c].dd_state.player_number]
    /\ Next_(c)
    /\ UNCHANGED <<finalVars, redisVars, dbVars, now, stamp, epoch>>

\* validate_dd_wager
min_wager == 5

max_clue_value(round_type) == IF round_type = "single" THEN 1000 ELSE 2000

max_wager(round_type, score) ==
    IF score > 0
    THEN IF score > max_clue_value(round_type)
         THEN score ELSE max_clue_value(round_type)
    ELSE max_clue_value(round_type)

\* the validation with the maximum itself refused
ValidDDWagerBelowMax(wager, round_type, score) ==
    ~(wager < min_wager) /\ ~(wager >= max_wager(round_type, score))

ValidDDWager(wager, round_type, score) ==
    ~(wager < min_wager) /\ ~(wager > max_wager(round_type, score))

StartSubmitWager(c, s, w) ==
    /\ Begin(c, "submit_wager",
             <<"sw_get_state", "get_player_score", "sw_validate",
               "set_dd_state", "sw_log_action", "sw_send_wager_submitted">>,
             [NoLoc EXCEPT !.player_number = s, !.wager = w])
    /\ UNCHANGED <<finalVars, redisVars, dbVars, bcast, now, stamp, epoch>>

\* round_type = get_state().get('current_round', 'single')
SubmitWagerGetState(c) ==
    /\ At(c, "sw_get_state")
    /\ Advance(c, [loc[c] EXCEPT !.round_type = state.current_round])
    /\ UNCHANGED <<finalVars, redisVars, dbVars, bcast, now, stamp, epoch>>

\* player_score = get_scores().get(player_number, 0), in submit_wager and
\* submit_fj_wager
GetPlayerScore(c) ==
    /\ At(c, "get_player_score")
    /\ Advance(c, [loc[c] EXCEPT !.player_score = scores[loc[c].player_number]])
    /\ UNCHANGED <<finalVars, redisVars, dbVars, bcast, now, stamp, epoch>>

\* if not validation['valid']: send_json(error); return
SubmitWagerValidate(c) ==
    /\ At(c, "sw_validate")
    /\ IF ValidDDWager(loc[c].wager, loc[c].round_type, loc[c].player_score)
       THEN Next_(c) /\ UNCHANGED finalVars
       ELSE /\ SendError(c, "wager out of range")
            /\ UNCHANGED fj_wagers
            /\ UNCHANGED fj_judged
            /\ UNCHANGED game_status
            /\ UNCHANGED <<audit_delta, roster, response>>
    /\ UNCHANGED <<redisVars, dbVars, bcast, now, stamp, epoch>>

SubmitWagerLogAction(c) ==
    /\ At(c, "sw_log_action")
    /\ lastAction' = [action_type |-> "submit_wager",
                      player_number |-> loc[c].player_number,
                      wager |-> loc[c].wager]
    /\ Next_(c)
    /\ UNCHANGED <<finalVars, redisVars, participant, bcast, now, stamp, epoch>>

SubmitWagerSendWagerSubmitted(c) ==
    /\ At(c, "sw_send_wager_submitted")
    /\ bcast' = [type |-> "wager_submitted",
                 player_number |-> loc[c].player_number,
                 wager |-> loc[c].wager]
    /\ Next_(c)
    /\ UNCHANGED <<finalVars, redisVars, dbVars, now, stamp, epoch>>

StartShowDDClue(c) ==
    /\ Begin(c, "show_dd_clue",
             <<"sd_get_state", "get_dd_state", "set_dd_state",
               "sd_send_dd_clue_shown">>, NoLoc)
    /\ UNCHANGED <<finalVars, redisVars, dbVars, bcast, now, stamp, epoch>>

\* clue_id = get_state().get('current_clue'); clue_data = get_clue_data(clue_id)
\* if clue_id else None; if not clue_data: return
ShowDDClueGetState(c) ==
    /\ At(c, "sd_get_state")
    /\ IF state.current_clue = NoClue
       THEN Goto(c, <<>>, NoLoc)
       ELSE Advance(c, [loc[c] EXCEPT !.clue_id = state.current_clue])
    /\ UNCHANGED <<finalVars, redisVars, dbVars, bcast, now, stamp, epoch>>

ShowDDClueSendDDClueShown(c) ==
    /\ At(c, "sd_send_dd_clue_shown")
    /\ bcast' = [type |-> "dd_clue_shown",
                 player_number |-> loc[c].dd_state.player_number,
                 clue |-> GetClueData(loc[c].clue_id)]
    /\ Next_(c)
    /\ UNCHANGED <<finalVars, redisVars, dbVars, now, stamp, epoch>>

\* handle_submit_dd_answer (the text of the answer is not modelled)
StartSubmitDDAnswer(c, s) ==
    /\ Begin(c, "submit_dd_answer",
             <<"get_dd_state", "set_dd_state", "da_log_action",
               "da_send_dd_answer_submitted">>,
             [NoLoc EXCEPT !.player_number = s])
    /\ UNCHANGED <<finalVars, redisVars, dbVars, bcast, now, stamp, epoch>>

SubmitDDAnswerLogAction(c) ==
    /\ At(c, "da_log_action")
    /\ lastAction' = [action_type |-> "submit_dd_answer",
                      player_number |-> loc[c].player_number]
    /\ Next_(c)
    /\ UNCHANGED <<finalVars, redisVars, participant, bcast, now, stamp, epoch>>

SubmitDDAnswerSendDDAnswerSubmitted(c) ==
    /\ At(c, "da_send_dd_answer_submitted")
    /\ bcast' = [type |-> "dd_answer_submitted",
                 player_number |-> loc[c].player_number]
    /\ Next_(c)
    /\ UNCHANGED <<finalVars, redisVars, dbVars, now, stamp, epoch>>

\* handle_judge_dd_answer: update_participant_score and set_current_player
\* are the calls of handle_judge_answer
StartJudgeDDAnswer(c, s, correct) ==
    /\ Begin(c, "judge_dd_answer",
             <<"get_dd_state", "update_score_by_wager", "ja_persist">>
                 \o (IF correct THEN <<"ja_set_current_player">> ELSE <<>>)
                 \o <<"set_dd_state", "jd_log_action",
                      "jd_send_dd_answer_judged">>,
             [NoLoc EXCEPT !.player_number = s, !.correct = correct])
    /\ UNCHANGED <<finalVars, redisVars, dbVars, bcast, now, stamp, epoch>>

\* delta = wager if correct else -wager; new_score = update_score(...), in
\* judge_dd_answer and judge_fj_answer (hincrby, as in judge_answer)
UpdateScoreByWager(c) ==
    LET s == loc[c].player_number
        delta == IF loc[c].correct THEN loc[c].wager ELSE -loc[c].wager
        new_score == (IF s \in DOMAIN scores THEN scores[s] ELSE 0) + delta
    IN
    /\ At(c, "update_score_by_wager")
    /\ scores' = [n \in DOMAIN scores \cup {s} |->
                     IF n = s THEN new_score ELSE scores[n]]
    /\ Advance(c, [loc[c] EXCEPT !.new_score = new_score])
    /\ UNCHANGED <<finalVars, state, buzzer, order, attempted_players, cooldowns,
                   current_player, dd_state, dbVars, bcast, now, stamp, epoch>>

JudgeDDLogAction(c) ==
    /\ At(c, "jd_log_action")
    /\ lastAction' = [action_type |-> "judge_dd_answer",
                      player_number |-> loc[c].player_number,
                      correct |-> loc[c].correct, wager |-> loc[c].wager,
                      new_score |-> loc[c].new_score]
    /\ audit_delta' = [audit_delta EXCEPT ![loc[c].player_number] =
                           @ + ScoreDelta(loc[c].correct, loc[c].wager)]
    /\ Next_(c)
    /\ UNCHANGED <<fj_wagers, fj_judged, game_status, reply, roster, response,
                   redisVars, participant, bcast, now, stamp, epoch>>

JudgeDDSendDDAnswerJudged(c) ==
    /\ At(c, "jd_send_dd_answer_judged")
    /\ bcast' = [type |-> "dd_answer_judged",
                 player_number |-> loc[c].player_number,
                 correct |-> loc[c].correct, wager |-> loc[c].wager,
                 new_score |-> loc[c].new_score]
    /\ Next_(c)
    /\ UNCHANGED <<finalVars, redisVars, dbVars, now, stamp, epoch>>

\* ------------------------------------------------ Final Jeopardy handlers
\* content['wager'] of a submit_fj_wager frame
FJWagers == {-1, 0, 400, 401}

\* the validation that only refuses negative wagers
ValidFJWagerNoMaximum(wager, player_score) == ~(wager < 0)

\* max_wager = max(0, player_score); if wager < 0 or wager > max_wager: error
ValidFJWager(wager, player_score) ==
    LET fj_max_wager == IF player_score > 0 THEN player_score ELSE 0
    IN  ~(wager < 0 \/ wager > fj_max_wager)

StartSubmitFJWager(c, s, w) ==
    /\ Begin(c, "submit_fj_wager",
             <<"get_player_score", "fw_validate", "fw_set_fj_wager",
               "fw_send_fj_wager_submitted">>,
             [NoLoc EXCEPT !.player_number = s, !.wager = w])
    /\ UNCHANGED <<finalVars, redisVars, dbVars, bcast, now, stamp, epoch>>

SubmitFJWagerValidate(c) ==
    /\ At(c, "fw_validate")
    /\ IF ValidFJWager(loc[c].wager, loc[c].player_score)
       THEN Next_(c) /\ UNCHANGED finalVars
       ELSE /\ SendError(c, "Invalid wager")
            /\ UNCHANGED fj_wagers
            /\ UNCHANGED fj_judged
            /\ UNCHANGED game_status
            /\ UNCHANGED <<audit_delta, roster, response>>
    /\ UNCHANGED <<redisVars, dbVars, bcast, now, stamp, epoch>>

\* set_fj_wager(player_number, wager)
SubmitFJWagerSetFJWager(c) ==
    /\ At(c, "fw_set_fj_wager")
    /\ fj_wagers' = [fj_wagers EXCEPT ![loc[c].player_number] = loc[c].wager]
    /\ Next_(c)
    /\ UNCHANGED <<fj_judged, game_status, reply, audit_delta, roster, response,
                   redisVars, dbVars, bcast,
                   now, stamp, epoch>>

SubmitFJWagerSendFJWagerSubmitted(c) ==
    /\ At(c, "fw_send_fj_wager_submitted")
    /\ bcast' = [type |-> "fj_wager_submitted",
                 player_number |-> loc[c].player_number,
                 wager |-> loc[c].wager]
    /\ Next_(c)
    /\ UNCHANGED <<finalVars, redisVars, dbVars, now, stamp, epoch>>

\* handle_judge_fj_answer, check_and_complete_game at its end:
\* update_participant_score is the call of handle_judge_answer, get_scores
\* the one of handle_next_clue
StartJudgeFJAnswer(c, s, correct) ==
    /\ Begin(c, "judge_fj_answer",
             <<"jf_get_fj_wager", "update_score_by_wager", "ja_persist",
               "jf_set_fj_judged", "jf_send_fj_answer_judged",
               "cc_get_participants", "cc_get_all_fj_judged", "nc_get_scores",
               "cc_save_final_scores", "cc_save_status",
               "cc_send_game_completed">>,
             [NoLoc EXCEPT !.player_number = s, !.correct = correct])
    /\ UNCHANGED <<finalVars, redisVars, dbVars, bcast, now, stamp, epoch>>

\* get_fj_wager: int(wager) if wager else 0
JudgeFJGetFJWager(c) ==
    LET wager == IF loc[c].player_number \in DOMAIN fj_wagers
                 THEN fj_wagers[loc[c].player_number] ELSE NoWager
    IN
    /\ At(c, "jf_get_fj_wager")
    /\ Advance(c, [loc[c] EXCEPT !.wager = IF wager = NoWager THEN 0 ELSE wager])
    /\ UNCHANGED <<finalVars, redisVars, dbVars, bcast, now, stamp, epoch>>

\* set_fj_judged(player_number, correct): '1' if correct else '0'
JudgeFJSetFJJudged(c) ==
    /\ At(c, "jf_set_fj_judged")
    /\ fj_judged' = [n \in DOMAIN fj_judged \cup {loc[c].player_number} |->
                        IF n = loc[c].player_number
                        THEN IF loc[c].correct THEN "1" ELSE "0"
                        ELSE fj_judged[n]]
    /\ Next_(c)
    /\ UNCHANGED <<fj_wagers, game_status, reply, audit_delta, roster, response,
                   redisVars, dbVars, bcast,
                   now, stamp, epoch>>

JudgeFJSendFJAnswerJudged(c) ==
    /\ At(c, "jf_send_fj_answer_judged")
    /\ bcast' = [type |-> "fj_answer_judged",
                 player_number |-> loc[c].player_number,
                 correct |-> loc[c].correct, wager |-> loc[c].wager,
                 new_score |-> loc[c].new_score]
    /\ Next_(c)
    /\ UNCHANGED <<finalVars, redisVars, dbVars, now, stamp, epoch>>

\* check_and_complete_game
\* total_players = len(get_participants()): one participant row per seat
total_players == Cardinality(Seats)

\* judged_count = len(get_all_fj_judged())
judged_count == Cardinality({s \in DOMAIN fj_judged : fj_judged[s] # "nil"})

\* the completion test that wants more judged seats than there are players
AllPlayersJudgedStrict(count, total) == count > total

\* if judged_count >= total_players
AllPlayersJudged(count, total) == count >= total

\* if total_players == 0: return
CheckGetParticipants(c) ==
    /\ At(c, "cc_get_participants")
    /\ IF total_players = 0 THEN Goto(c, <<>>, NoLoc) ELSE Next_(c)
    /\ UNCHANGED <<finalVars, redisVars, dbVars, bcast, now, stamp, epoch>>

CheckGetAllFJJudged(c) ==
    /\ At(c, "cc_get_all_fj_judged")
    /\ IF AllPlayersJudged(judged_count, total_players)
       THEN Next_(c) ELSE Goto(c, <<>>, NoLoc)
    /\ UNCHANGED <<finalVars, redisVars, dbVars, bcast, now, stamp, epoch>>

\* save_final_scores_to_db(scores): every seat's row takes its score
CheckSaveFinalScores(c) ==
    /\ At(c, "cc_save_final_scores")
    /\ participant' = [s \in Seats |-> loc[c].scores[s]]
    /\ Next_(c)
    /\ UNCHANGED <<finalVars, redisVars, lastAction, bcast, now, stamp, epoch>>

\* game.status = 'completed'; game.save()
CheckSaveStatus(c) ==
    /\ At(c, "cc_save_status")
    /\ game_status' = "completed"
    /\ Next_(c)
    /\ UNCHANGED <<fj_wagers, fj_judged, reply, audit_delta, roster, response,
                   redisVars, dbVars, bcast, now,
                   stamp, epoch>>

CheckSendGameCompleted(c) ==
    /\ At(c, "cc_send_game_completed")
    /\ bcast' = [type |-> "game_completed", final_scores |-> loc[c].scores]
    /\ Next_(c)
    /\ UNCHANGED <<finalVars, redisVars, dbVars, now, stamp, epoch>>

\* ------------------------------------------------------------- log_action
\* GameAction.objects.create raises (the database is away): no row is
\* written, the exception leaves the handler at that call and receive_json
\* answers it with an error frame
LogActionFails(c) ==
    /\ ~Idle(c)
    /\ Head(pc[c]) \in {"ja_log_action", "sr_log_action", "sw_log_action",
                        "da_log_action", "jd_log_action"}
    /\ SendError(c, "OperationalError")
    /\ UNCHANGED <<fj_wagers, fj_judged, game_status, audit_delta, roster,
                   response, redisVars, dbVars, bcast, now, stamp, epoch>>

\* ----------------------------------------------------------- receive_json
\* the keys of the handler table
handlers ==
    {"buzz", "reveal_clue", "enable_buzzer", "judge_answer", "next_clue",
     "reset_game", "adjust_score", "start_round", "reveal_daily_double",
     "submit_wager", "show_dd_clue", "submit_dd_answer", "judge_dd_answer",
     "start_final_jeopardy", "submit_fj_wager", "reveal_fj_clue",
     "start_fj_timer", "submit_fj_answer", "judge_fj_answer"}

\* handler = handlers.get(message_type); else: send_json(error 'Unknown
\* message type')
ReceiveUnknown(c, message_type) ==
    /\ Idle(c)
    /\ message_type \notin handlers
    /\ reply' = [reply EXCEPT ![c] =
                    [type |-> "error",
                     message |-> <<"Unknown message type", message_type>>]]
    /\ UNCHANGED <<fj_wagers, fj_judged, game_status, audit_delta, roster,
                   response, redisVars, dbVars,
                   bcast, now, stamp, pc, loc, epoch, awaitingEnable>>

\* ------------------------------------------------------------ connect
\* GameConsumer.connect, once for a connection (no connection_established
\* frame was sent to it yet); player_numbers are the seats of the
\* participant rows.  The score loop of initialize_game is the hset of
\* reset_game; the reads for the frame are get_state of next_clue,
\* get_scores and get_current_player.
StartConnect(c) ==
    /\ reply[c].type = "none"
    /\ Begin(c, "connect", <<"cn_get_state">>, [NoLoc EXCEPT !.keys = Seats])
    /\ UNCHANGED <<finalVars, redisVars, dbVars, bcast, now, stamp, epoch>>

\* state = get_state(); if not state or 'episode_id' not in state
\* (episode_id 0: the hash has no such field)
ConnectGetState(c) ==
    /\ At(c, "cn_get_state")
    /\ Goto(c, (IF state.episode_id = 0
                THEN <<"cn_initialize_game", "rg_zero_score">> ELSE <<>>)
                  \o <<"nc_get_state", "nc_get_scores",
                       "ja_get_current_player",
                       "cn_send_connection_established">>,
            loc[c])
    /\ UNCHANGED <<finalVars, redisVars, dbVars, bcast, now, stamp, epoch>>

\* daily_doubles = select_daily_doubles(episode_id): random.choice of the
\* single round's clues; initialize_game: hset(state_key, mapping=initial_state)
ConnectInitializeGame(c) ==
    /\ At(c, "cn_initialize_game")
    /\ \E single_dd \in Clues :
          state' = [episode_id |-> 1, current_round |-> "single",
                    current_clue |-> NoClue, revealed_clues |-> <<>>,
                    daily_doubles |-> <<single_dd>>]
    /\ Next_(c)
    /\ UNCHANGED <<finalVars, scores, buzzer, order, attempted_players,
                   cooldowns, current_player, dd_state, dbVars, bcast, now,
                   stamp, epoch>>

\* send_json({'type': 'connection_established', ...}) to the client alone
ConnectSendConnectionEstablished(c) ==
    /\ At(c, "cn_send_connection_established")
    /\ reply' = [reply EXCEPT ![c] =
                    [type |-> "connection_established",
                     revealed_clues |-> loc[c].revealed,
                     scores |-> loc[c].scores,
                     current_player |-> loc[c].current_player]]
    /\ Next_(c)
    /\ UNCHANGED <<fj_wagers, fj_judged, game_status, audit_delta, roster,
                   response, redisVars, dbVars, bcast, now, stamp, epoch>>

\* ------------------------------------------------- GameViewSet (REST)
\* the test for a full game letting a seventh participant in
GameIsFullAboveSix(current_players) == current_players > 6

\* if current_players >= 6: 'Game is full (max 6 players)'
GameIsFull(current_players) == current_players >= 6

\* POST /api/games/{game_id}/join/ for the player of id `player`; 0 stands
\* for a body with neither player_id nor display_name
Join(player) ==
    LET current_players == Len(roster)
        player_number == current_players + 1
    IN
    /\ IF game_status \notin {"waiting", "active"}
       THEN /\ response' = [status |-> 400,
                            error |-> "Game is not accepting new players"]
            /\ UNCHANGED <<roster, participant, scores, bcast>>
       ELSE IF GameIsFull(current_players)
       THEN /\ response' = [status |-> 400,
                            error |-> "Game is full (max 6 players)"]
            /\ UNCHANGED <<roster, participant, scores, bcast>>
       ELSE IF player = 0
       THEN /\ response' = [status |-> 400,
                            error |-> "Either player_id or display_name required"]
            /\ UNCHANGED <<roster, participant, scores, bcast>>
       ELSE IF InSeq(player, roster)
       THEN /\ response' = [status |-> 200, player |-> player]
            /\ UNCHANGED <<roster, participant, scores, bcast>>
       ELSE /\ roster' = Append(roster, player)
            /\ participant' = [n \in DOMAIN participant \cup {player_number} |->
                                  IF n = player_number THEN 0
                                  ELSE participant[n]]
            /\ scores' = [n \in DOMAIN scores \cup {player_number} |->
                             IF n = player_number THEN 0 ELSE scores[n]]
            /\ bcast' = [type |-> "player_joined",
                         player_number |-> player_number,
                         player_name |-> player]
            /\ response' = [status |-> 201, player |-> player,
                            player_number |-> player_number]
    /\ UNCHANGED <<fj_wagers, fj_judged, game_status, reply, audit_delta, state,
                   buzzer, order, attempted_players, cooldowns, current_player,
                   dd_state, lastAction, now, stamp, pc, loc, epoch,
                   awaitingEnable, commands>>

\* POST /api/games/{game_id}/end/
End ==
    /\ IF game_status \in {"completed", "abandoned"}
       THEN /\ response' = [status |-> 400,
                            error |-> IF game_status = "completed"
                                      THEN "Game already completed"
                                      ELSE "Game already abandoned"]
            /\ UNCHANGED game_status
       ELSE /\ game_status' = "completed"
            /\ response' = [status |-> 200]
    /\ UNCHANGED <<fj_wagers, fj_judged, reply, audit_delta, roster, redisVars,
                   dbVars, bcast, now, stamp, pc, loc, epoch, awaitingEnable,
                   commands>>

\* ------------------------- engine methods no consumer handler ever calls
\* mark_player_attempted: sadd(attempted_players_key, player_number)
StartMarkPlayerAttempted(c, s) ==
    /\ Begin(c, "mark_player_attempted", <<"mp_sadd">>,
             [NoLoc EXCEPT !.player_number = s])
    /\ UNCHANGED <<finalVars, redisVars, dbVars, bcast, now, stamp, epoch>>

MarkSadd(c) ==
    /\ At(c, "mp_sadd")
    /\ attempted_players' = attempted_players \cup {loc[c].player_number}
    /\ Next_(c)
    /\ UNCHANGED <<finalVars, state, scores, buzzer, order, cooldowns, current_player,
                   dd_state, dbVars, bcast, now, stamp, epoch>>

StartClearBuzzerForRetry(c) ==
    /\ Begin(c, "clear_buzzer_for_retry", <<"del_buzzer", "del_order">>, NoLoc)
    /\ UNCHANGED <<finalVars, redisVars, dbVars, bcast, now, stamp, epoch>>

\* ---------------------------------------------------------- specifications
ResetBuzzerStep(c) == DelBuzzer(c) \/ DelOrder(c) \/ DelAttempted(c)

RevealStep(c) ==
    \/ RevealGetState(c) \/ RevealUpdateState(c) \/ LockBuzzer(c)
    \/ RevealGetDailyDoubles(c) \/ RevealSendClueRevealed(c)

RevealDailyDoubleStep(c) ==
    \/ RevealGetCurrentPlayer(c) \/ RevealSetCurrentPlayer(c)
    \/ RevealSetDDState(c) \/ RevealSendDailyDoubleDetected(c)

EnableStep(c) ==
    \/ UnlockHsetLocked(c) \/ UnlockHsetToken(c) \/ EnableGetState(c)
    \/ EnableSendBuzzerEnabled(c)

JudgeStep(c) ==
    \/ JudgeUpdateScore(c) \/ JudgePersist(c) \/ JudgeSetCurrentPlayer(c)
    \/ JudgeGetCurrentPlayer(c) \/ JudgeLogAction(c) \/ JudgeSendAnswerJudged(c)

NextClueStep(c) ==
    \/ NextClearCurrentClue(c) \/ ClearDDState(c) \/ NextGetScores(c)
    \/ NextGetState(c) \/ NextSendReturnToBoard(c)

ResetGameStep(c) ==
    \/ ResetHsetState(c) \/ ResetGetScores(c) \/ ResetZeroScore(c)
    \/ ResetDelCurrentPlayer(c) \/ ResetPersist(c) \/ ResetSendGameReset(c)

Buzz == \E s \in Seats, tok \in Tokens : HandleBuzz(s, tok)

\* The gateway: the host's commands on one connection and the players' buzz
\* frames, the clock standing still.
Next ==
    \/ /\ commands < MaxCommands
       /\ commands' = commands + 1
       /\ \E c \in Host :
             \/ \E clue \in Clues : StartRevealClue(c, clue)
             \/ StartEnableBuzzer(c)
             \/ \E s \in Seats, correct \in BOOLEAN, value \in Values :
                   StartJudgeAnswer(c, s, correct, value)
             \/ StartNextClue(c)
             \/ StartResetGame(c)
    \/ /\ UNCHANGED commands
       /\ \/ \E c \in Host :
                \/ ResetBuzzerStep(c) \/ RevealStep(c)
                \/ RevealDailyDoubleStep(c) \/ EnableStep(c)
                \/ JudgeStep(c) \/ NextClueStep(c) \/ ResetGameStep(c)
          \/ Buzz

Spec == Init /\ [][Next]_vars

\* Clue 2 is the Daily Double; the buzzer is played on the ordinary clue.
OrdinaryClue == CHOOSE c \in Clues : c # 2

InitBuzzer == Init /\ state.daily_doubles = <<2>>

BuzzerStep(c) ==
    ResetBuzzerStep(c) \/ RevealStep(c) \/ EnableStep(c) \/ NextClueStep(c)

\* One clue under the clock: the clue is revealed and enabled while the
\* seats buzz and the seconds pass.
NextCooldown ==
    /\ UNCHANGED commands
    /\ \/ \E c \in Host :
             StartRevealClue(c, OrdinaryClue) \/ StartEnableBuzzer(c)
       \/ \E c \in Host :
             ResetBuzzerStep(c) \/ RevealStep(c) \/ EnableStep(c)
       \/ Buzz
       \/ Tick

SpecCooldown == InitBuzzer /\ [][NextCooldown]_vars

\* The buzzer over several clues, with a caller that also uses the engine's
\* retry methods (mark_player_attempted, clear_buzzer_for_retry) and waits
\* out a whole cooldown between frames.
NextEngine ==
    /\ UNCHANGED commands
    /\ \/ \E c \in Host :
             \/ StartRevealClue(c, OrdinaryClue)
             \/ StartEnableBuzzer(c)
             \/ StartNextClue(c)
       \/ \E c \in Host :
             \/ \E s \in Seats : StartMarkPlayerAttempted(c, s)
             \/ StartClearBuzzerForRetry(c)
       \/ \E c \in Host : BuzzerStep(c)
       \/ \E c \in Host : MarkSadd(c)
       \/ Buzz
       \/ Wait

SpecEngine == InitBuzzer /\ [][NextEngine]_vars

\* The judged clue: an ordinary clue is revealed, enabled, buzzed on and
\* judged, the clock standing still.
NextJudge ==
    \/ /\ commands < MaxCommands
       /\ commands' = commands + 1
       /\ \E c \in Host :
             \/ StartRevealClue(c, OrdinaryClue)
             \/ StartEnableBuzzer(c)
             \/ \E s \in Seats, correct \in BOOLEAN, value \in Values :
                   StartJudgeAnswer(c, s, correct, value)
             \/ StartNextClue(c)
    \/ /\ UNCHANGED commands
       /\ \/ \E c \in Host : BuzzerStep(c)
          \/ \E c \in Host : JudgeStep(c)
          \/ Buzz

SpecJudge == InitBuzzer /\ [][NextJudge]_vars

\* The board: the host reveals clues (the Daily Double and a clue of another
\* episode among them) and returns to the board.
\* the calls of handle_reveal_clue
RevealRaceStep(c) ==
    ResetBuzzerStep(c) \/ RevealStep(c) \/ RevealDailyDoubleStep(c)

NextReveal ==
    /\ UNCHANGED commands
    /\ \/ \E c \in Host :
             \/ \E clue \in ClueIds : StartRevealClue(c, clue)
             \/ StartNextClue(c)
       \/ \E c \in Host : RevealRaceStep(c) \/ NextClueStep(c)

SpecReveal == Init /\ [][NextReveal]_vars

\* reveal_clue frames arriving on two connections at once.

NextRevealRace ==
    /\ UNCHANGED commands
    /\ \/ \E c \in Conns, clue \in ClueIds : StartRevealClue(c, clue)
       \/ \E c \in Conns : RevealRaceStep(c)

SpecRevealRace == Init /\ [][NextRevealRace]_vars

\* Wagering on the host's connection, for a session taken at any point of
\* either round: the seats' scores are whatever the earlier clues left, and
\* clue 2 is the round's Daily Double.
SeatScores == {-200, 0, 300, 2500}

InitWager ==
    \E sc \in [Seats -> SeatScores], round \in {"single", "double"} :
        InitWith(1, <<2>>, round, sc)

\* the calls of handle_reveal_clue, handle_reveal_daily_double and
\* handle_submit_wager
WagerStep(c) ==
    \/ RevealRaceStep(c)
    \/ GetDDState(c) \/ SetDDState(c) \/ RevealDDSendDailyDoubleRevealed(c)
    \/ SubmitWagerGetState(c) \/ GetPlayerScore(c) \/ SubmitWagerValidate(c)
    \/ SubmitWagerLogAction(c) \/ SubmitWagerSendWagerSubmitted(c)

NextWager ==
    /\ UNCHANGED commands
    /\ \E c \in Host :
          \/ \E clue \in Clues : StartRevealClue(c, clue)
          \/ StartRevealDailyDouble(c)
          \/ \E s \in Seats, w \in Wagers : StartSubmitWager(c, s, w)
          \/ WagerStep(c)

SpecWager == InitWager /\ [][NextWager]_vars

\* The whole Daily Double on the host's connection, from a fresh session:
\* the board (reveal_clue, next_clue) and the five Daily Double frames in
\* any order, with one refused and one accepted amount to wager.
\* judge_dd_answer frames are counted, so that the scores stay finite
NextDD ==
    \/ /\ UNCHANGED commands
       /\ \E c \in Host :
             \/ \E clue \in Clues : StartRevealClue(c, clue)
             \/ StartNextClue(c)
             \/ StartRevealDailyDouble(c)
             \/ \E s \in Seats, w \in {4, 1000} : StartSubmitWager(c, s, w)
             \/ StartShowDDClue(c)
             \/ \E s \in Seats : StartSubmitDDAnswer(c, s)
             \/ NextClueStep(c) \/ WagerStep(c)
             \/ ShowDDClueGetState(c) \/ ShowDDClueSendDDClueShown(c)
             \/ SubmitDDAnswerLogAction(c)
             \/ SubmitDDAnswerSendDDAnswerSubmitted(c)
             \/ UpdateScoreByWager(c) \/ JudgePersist(c)
             \/ JudgeSetCurrentPlayer(c)
             \/ JudgeDDLogAction(c) \/ JudgeDDSendDDAnswerJudged(c)
    \/ /\ commands < MaxJudged
       /\ commands' = commands + 1
       /\ \E c \in Host, s \in Seats, correct \in BOOLEAN :
             StartJudgeDDAnswer(c, s, correct)

SpecDD == InitBuzzer /\ [][NextDD]_vars

\* Final Jeopardy on the host's connection, for seats that come out of the
\* two rounds with any of these scores: wagers, judging (counted, so that the
\* scores stay finite) and frames the handler table does not know.
InitFJ ==
    \E sc \in [Seats -> {-200, 0, 400}] : InitWith(1, <<2>>, "double", sc)

\* the frames and the calls of handle_submit_fj_wager,
\* handle_judge_fj_answer and check_and_complete_game
NextFJ ==
    \/ /\ UNCHANGED commands
       /\ \E c \in Host :
             \/ \E s \in Seats, w \in FJWagers : StartSubmitFJWager(c, s, w)
             \/ \E t \in {"end_game", "abandon_game", "ping"} :
                   ReceiveUnknown(c, t)
             \/ GetPlayerScore(c) \/ SubmitFJWagerValidate(c)
             \/ SubmitFJWagerSetFJWager(c)
             \/ SubmitFJWagerSendFJWagerSubmitted(c)
             \/ JudgeFJGetFJWager(c) \/ UpdateScoreByWager(c)
             \/ JudgePersist(c)
             \/ JudgeFJSetFJJudged(c) \/ JudgeFJSendFJAnswerJudged(c)
             \/ CheckGetParticipants(c) \/ CheckGetAllFJJudged(c)
             \/ NextGetScores(c)
             \/ CheckSaveFinalScores(c) \/ CheckSaveStatus(c)
             \/ CheckSendGameCompleted(c)
    \/ /\ commands < MaxCommands
       /\ commands' = commands + 1
       /\ \E c \in Host, s \in Seats, correct \in BOOLEAN :
             StartJudgeFJAnswer(c, s, correct)

SpecFJ == InitFJ /\ [][NextFJ]_vars

\* The rounds: the host reveals clues, starts rounds (with any value of the
\* round field, or none) and resets the game, while the seats send buzz
\* frames; the single round has left the seats tied or apart.
InitRound ==
    \E sc \in [Seats -> {-200, 300}] : InitWith(1, <<2>>, "single", sc)

NextRound ==
    /\ UNCHANGED commands
    /\ \/ \E c \in Host :
             \/ \E clue \in Clues : StartRevealClue(c, clue)
             \/ \E round_type \in {"single", "double", "final", ""} :
                   StartStartRound(c, round_type)
             \/ StartResetGame(c)
             \/ RevealRaceStep(c) \/ ResetGameStep(c) \/ ClearDDState(c)
             \/ StartRoundUpdateState(c) \/ NextGetState(c)
             \/ StartRoundClearRevealedClues(c) \/ StartRoundGetScores(c)
             \/ JudgeSetCurrentPlayer(c) \/ JudgeGetCurrentPlayer(c)
             \/ StartRoundLogAction(c) \/ StartRoundSendRoundChanged(c)
       \/ \E s \in Seats : HandleBuzz(s, NoToken)

SpecRound == InitRound /\ [][NextRound]_vars

\* Frames as a client may send them: reveal_clue with and without clue_id
\* (NoClue for the missing field), start_round with and without round, and
\* types the handler table does not know.
NextFrames ==
    /\ UNCHANGED commands
    /\ \E c \in Host :
          \/ \E clue \in Clues \cup {NoClue} : StartRevealClue(c, clue)
          \/ \E round_type \in {"double", ""} : StartStartRound(c, round_type)
          \/ \E t \in {"end_game", "ping"} : ReceiveUnknown(c, t)
          \/ RevealRaceStep(c)
          \/ StartRoundUpdateState(c) \/ NextGetState(c)
          \/ StartRoundClearRevealedClues(c) \/ StartRoundGetScores(c)
          \/ JudgeSetCurrentPlayer(c) \/ JudgeGetCurrentPlayer(c)
          \/ StartRoundLogAction(c) \/ StartRoundSendRoundChanged(c)

SpecFrames == Init /\ [][NextFrames]_vars

\* The lobby: players, the two seated ones among them, post join requests
\* until the game is full, and the host may end the game.
NextJoin == (\E player \in 0 .. 7 : Join(player)) \/ End

SpecJoin == Init /\ [][NextJoin]_vars

\* judge_answer frames, counted, arriving on two connections at once.
NextJudgeRace ==
    \/ /\ commands < MaxCommands
       /\ commands' = commands + 1
       /\ \E c \in Conns, s \in Seats, correct \in BOOLEAN, value \in Values :
             StartJudgeAnswer(c, s, correct, value)
    \/ /\ UNCHANGED commands
       /\ \E c \in Conns : JudgeStep(c)

SpecJudgeRace == InitBuzzer /\ [][NextJudgeRace]_vars

\* The room filling: GameViewSet.create has stored the Daily Double it drew
\* and join a score of 0 for each seat, and no connection is open.  The
\* connections connect, and the host, once connected, reveals clues and
\* judges answers (counted, so that the scores stay finite).
InitConnect ==
    /\ \E dd \in {<<c>> : c \in Clues} :
          InitWith(0, dd, "", [s \in Seats |-> 0])

NextConnect ==
    \/ /\ UNCHANGED commands
       /\ \/ \E c \in Conns :
                \/ StartConnect(c) \/ ConnectGetState(c)
                \/ ConnectInitializeGame(c) \/ ResetZeroScore(c)
                \/ NextGetState(c) \/ NextGetScores(c)
                \/ JudgeGetCurrentPlayer(c)
                \/ ConnectSendConnectionEstablished(c)
          \/ \E c \in Host :
                \/ /\ reply[c].type = "connection_established"
                   /\ \E clue \in Clues : StartRevealClue(c, clue)
                \/ RevealRaceStep(c) \/ JudgeStep(c)
    \/ /\ commands < MaxJudged
       /\ commands' = commands + 1
       /\ \E c \in Host, s \in Seats, correct \in BOOLEAN, value \in Values :
             /\ reply[c].type = "connection_established"
             /\ StartJudgeAnswer(c, s, correct, value)

SpecConnect == InitConnect /\ [][NextConnect]_vars

\* judge_answer frames (counted) as the host's client may send them: for a
\* seat of the game or for player_number 3, which no participant holds;
\* the audit row of a handler is written or fails to be.
NextAudit ==
    \/ /\ commands < MaxCommands
       /\ commands' = commands + 1
       /\ \E c \in Host, s \in Seats \cup {3}, correct \in BOOLEAN,
             value \in Values :
             StartJudgeAnswer(c, s, correct, value)
    \/ /\ UNCHANGED commands
       /\ \E c \in Host : JudgeStep(c) \/ LogActionFails(c)

SpecAudit == InitBuzzer /\ [][NextAudit]_vars

\* Final Jeopardy judged, the frames counted, for a seat of the game or for
\* player_number 3, which no participant holds, with wagers of 400 and the
\* host resetting the game in between.
NextFJReset ==
    \/ /\ UNCHANGED commands
       /\ \E c \in Host :
             \/ \E s \in Seats : StartSubmitFJWager(c, s, 400)
             \/ StartResetGame(c)
             \/ GetPlayerScore(c) \/ SubmitFJWagerValidate(c)
             \/ SubmitFJWagerSetFJWager(c)
             \/ SubmitFJWagerSendFJWagerSubmitted(c)
             \/ JudgeFJGetFJWager(c) \/ UpdateScoreByWager(c)
             \/ JudgePersist(c)
             \/ JudgeFJSetFJJudged(c) \/ JudgeFJSendFJAnswerJudged(c)
             \/ CheckGetParticipants(c) \/ CheckGetAllFJJudged(c)
             \/ NextGetScores(c)
             \/ CheckSaveFinalScores(c) \/ CheckSaveStatus(c)
             \/ CheckSendGameCompleted(c)
             \/ ResetGameStep(c) \/ ResetBuzzerStep(c) \/ ClearDDState(c)
    \/ /\ commands < MaxCommands
       /\ commands' = commands + 1
       /\ \E c \in Host, s \in Seats \cup {3}, correct \in BOOLEAN :
             StartJudgeFJAnswer(c, s, correct)

SpecFJReset == InitFJ /\ [][NextFJReset]_vars

\* ================================================================ properties
AllIdle == \A c \in Conns : Idle(c)

BuzzStep(s) == \E tok \in Tokens : HandleBuzz(s, tok)

\* C1: within one buzzer epoch (the life of one buzzer hash) the accepted
\* buzzes are numbered 1, 2, ... in the order the script ran them, so at most
\* one of them has position 1, and every one of them reports as winner the
\* seat of the position-1 buzz.
BuzzFirstWins ==
    /\ Cardinality({i \in 1 .. Len(epoch) : epoch[i].position = 1}) <= 1
    /\ \A i \in 1 .. Len(epoch) :
          /\ epoch[i].position = i
          /\ epoch[i].winner = epoch[1].player_number

BuzzFirstWinsWitness ==
    /\ Len(epoch) = 2
    /\ epoch[1].position = 1
    /\ epoch[2].position = 2
    /\ epoch[2].player_number # epoch[1].player_number
    /\ epoch[2].winner = epoch[1].player_number

\* C2 as claimed: an accepted buzz always carries the token minted by the
\* most recent enable_buzzer (never a missing, empty or older one).
AcceptedBuzzCarriesLatestToken ==
    [][\A s \in Seats, tok \in Tokens :
          (HandleBuzz(s, tok) /\ bcast'.accepted)
              => (tok # NoToken /\ tok = stamp)]_vars

\* C2 as amended: while the buzzer hash holds an unlock_token, a buzz whose
\* token is missing, empty or different from the stored one is not accepted
\* (position -1 or lower); the token is not checked when the hash holds none.
StaleTokenRejected ==
    [][\A s \in Seats, tok \in Tokens :
          (buzzer.unlock_token # NoToken /\ tok # buzzer.unlock_token
                                         /\ HandleBuzz(s, tok))
              => (~bcast'.accepted /\ bcast'.position < 0
                  /\ buzzer' = buzzer /\ order' = order)]_vars

\* a buzz was turned away for its token alone: the buzzer is unlocked, a
\* token is stored, the seat is not in cooldown, has not attempted and has
\* not buzzed, and the reply is the cooldown-setting -1
StaleTokenRejectedWitness ==
    /\ AllIdle
    /\ bcast.type = "buzz_result"
    /\ bcast.position = -1
    /\ bcast.cooldown
    /\ buzzer.locked = "false"
    /\ buzzer.unlock_token = MaxToken
    /\ bcast.player_number \notin buzzer.players

\* C3: from the moment a reveal_clue command is received until the next
\* enable_buzzer, no buzz is accepted, whatever store operation of the
\* reveal handler the buzz falls between.
NoBuzzBetweenRevealAndEnable ==
    [][\A s \in Seats, tok \in Tokens :
          (awaitingEnable /\ HandleBuzz(s, tok)) => ~bcast'.accepted]_vars

\* C4: a buzz that runs between the two writes of unlock_buzzer, or after
\* them, is accepted only if it carries the token that unlock_buzzer minted.
EnableBuzzerIsAtomic ==
    [][\A s \in Seats, tok \in Tokens, c \in Conns :
          (loc[c].op = "enable_buzzer" /\ loc[c].unlock_token # NoToken
               /\ HandleBuzz(s, tok) /\ bcast'.accepted)
              => tok = loc[c].unlock_token]_vars

\* C5: a buzz by a seat in attempted_players is turned away with position
\* -3, and while a clue is current a seat leaves attempted_players only in
\* a next_clue (or as another, not yet revealed, clue becomes the current
\* one).
AttemptedUntilNextClue ==
    [][\A s \in Seats :
          /\ (s \in attempted_players /\ BuzzStep(s))
                => (~bcast'.accepted /\ bcast'.position = -3)
          /\ (s \in attempted_players /\ state.current_clue # NoClue
                  /\ s \notin attempted_players')
                => \E c \in Conns :
                      \/ loc[c].op = "next_clue"
                      \/ /\ loc[c].op = "reveal_clue"
                         /\ ~InSeq(loc[c].clue_id, loc[c].revealed)]_vars

\* C6: when judge_answer(seat, correct = false, value) finishes on a clue
\* that other seats can still attempt, the seat is in attempted_players, the
\* buzzer hash and the buzz-order list are empty but for a newly minted
\* token, and the last broadcast is buzzer_enabled with that token.
JudgeIncorrectReopensBuzzer ==
    [][\A c \in Conns :
          (JudgeSendAnswerJudged(c) /\ ~loc[c].correct
               /\ state.current_clue # NoClue
               /\ attempted_players \cup {loc[c].player_number} # Seats)
              => /\ loc[c].player_number \in attempted_players'
                 /\ buzzer'.count = 0
                 /\ buzzer'.players = {}
                 /\ order' = <<>>
                 /\ buzzer'.unlock_token = stamp'
                 /\ bcast'.type = "buzzer_enabled"
                 /\ bcast'.unlock_token = buzzer'.unlock_token]_vars

\* C7: once judge_answer(seat, correct, value) has made its writes, the
\* seat's score is its score at the start plus value if correct and minus
\* value if not, every other score is as at the start, and current_player
\* is the seat if correct and as at the start if not.
JudgeAnswerScores ==
    \A c \in Conns :
        (loc[c].op = "judge_answer"
             /\ Head(pc[c]) \in {"ja_get_current_player", "ja_log_action",
                                 "ja_send_answer_judged"})
            => LET s == loc[c].player_number IN
               /\ scores[s] = IF loc[c].correct
                              THEN loc[c].pre_scores[s] + loc[c].value
                              ELSE loc[c].pre_scores[s] - loc[c].value
               /\ \A o \in Seats \ {s} : scores[o] = loc[c].pre_scores[o]
               /\ current_player = IF loc[c].correct THEN s
                                   ELSE loc[c].pre_player

\* an incorrect answer judged after another seat's correct one
JudgeAnswerScoresWitness ==
    \E c \in Conns :
        /\ At(c, "ja_send_answer_judged")
        /\ ~loc[c].correct
        /\ scores[loc[c].player_number] = -200
        /\ current_player \in Seats \ {loc[c].player_number}
        /\ scores[current_player] = 200

\* C8: a buzz by a seat that already has an accepted buzz in this epoch is
\* not accepted and changes neither the buzz count, the buzz-order list nor
\* the winner.
BuzzOncePerEpoch ==
    [][\A s \in Seats :
          ((\E i \in 1 .. Len(epoch) : epoch[i].player_number = s)
               /\ BuzzStep(s))
              => /\ ~bcast'.accepted
                 /\ buzzer'.count = buzzer.count
                 /\ order' = order
                 /\ buzzer'.winner = buzzer.winner]_vars

\* the seat that buzzed first buzzes again once its cooldown is over and is
\* turned away as a duplicate
BuzzOncePerEpochWitness ==
    /\ bcast.type = "buzz_result"
    /\ bcast.position = -1
    /\ ~bcast.cooldown
    /\ Len(epoch) >= 1
    /\ bcast.player_number = epoch[1].player_number
    /\ buzzer.count = Len(epoch)

\* C9: a buzz by a seat not in attempted_players gets position -2 exactly
\* when less than 2 seconds have passed since cooldowns[seat], and a -2 reply
\* leaves the cooldowns, the buzzer hash and the order list as they were.
CooldownRejection ==
    [][\A s \in Seats :
          (s \notin attempted_players /\ BuzzStep(s))
              => /\ (bcast'.position = -2)
                        <=> (cooldowns[s] # NoTime /\ now - cooldowns[s] < 2)
                 /\ (bcast'.position = -2)
                        => (cooldowns' = cooldowns /\ buzzer' = buzzer
                            /\ order' = order)]_vars

\* a buzz one second into the cooldown: -2 with one second remaining
CooldownRejectionWitness ==
    /\ bcast.type = "buzz_result"
    /\ bcast.position = -2
    /\ bcast.cooldown_remaining = 1
    /\ now - cooldowns[bcast.player_number] = 1

\* C10: a winner is recorded only while the buzzer is locked by the
\* position-1 buzz, and a recorded winner changes only by being cleared.
WinnerOnlyWhileLocked ==
    [][/\ buzzer'.winner # NoSeat => buzzer'.locked = "1"
       /\ (buzzer.winner # NoSeat /\ buzzer'.winner # buzzer.winner)
              => buzzer'.winner = NoSeat]_vars

\* C11: revealed_clues never holds the same clue id twice, whatever
\* reveal_clue frames arrive and however the handlers of two connections
\* interleave.
RevealedCluesDistinct ==
    \A i, j \in 1 .. Len(state.revealed_clues) :
        i # j => state.revealed_clues[i] # state.revealed_clues[j]

\* two connections revealed the same clue at once: each read a list without
\* it and each has written its own copy with the clue appended
RevealedCluesDistinctWitness ==
    /\ \A c \in Conns :
          /\ At(c, "del_buzzer")
          /\ loc[c].op = "reveal_clue"
          /\ loc[c].revealed = <<>>
    /\ loc[1].clue_id = loc[2].clue_id
    /\ state.revealed_clues = <<loc[1].clue_id>>

\* C12: a reveal_clue for a clue id that is not of the session's episode
\* changes neither revealed_clues, current_clue nor the buzzer, broadcasts
\* nothing and ends in an error frame to the sender; revealed_clues holds
\* clue ids of the episode only.
ForeignClueRejected ==
    [][/\ \A c \in Conns :
             (loc[c].op = "reveal_clue" /\ loc[c].clue_id \notin Clues)
                 => /\ state' = state
                    /\ buzzer' = buzzer
                    /\ bcast' = bcast
                    /\ Idle(c)' => reply'[c].type = "error"
       /\ \A i \in 1 .. Len(state'.revealed_clues) :
             state'.revealed_clues[i] \in Clues]_vars

\* C13: when engine.reveal_clue(clue) returns, current_clue is the clue, the
\* clue is in revealed_clues and the buzzer state of the clue is reset (no
\* winner, count 0, empty order, nobody attempted), whether or not the clue
\* had been revealed before.
RevealClueSetsCurrentClue ==
    [][\A c \in Conns :
          (loc[c].op = "reveal_clue" /\ loc[c].clue_id \in Clues
               /\ DelAttempted(c))
              => /\ state'.current_clue = loc[c].clue_id
                 /\ InSeq(loc[c].clue_id, state'.revealed_clues)
                 /\ buzzer'.winner = NoSeat
                 /\ buzzer'.count = 0
                 /\ order' = <<>>
                 /\ attempted_players' = {}]_vars

\* C14: a submit_wager for a seat other than dd_state.player_number, sent
\* while the Daily Double waits for its wager, leaves dd_state as it was,
\* broadcasts nothing and ends in an error frame to the sender.
SubmitWagerOfOtherSeatRejected ==
    [][\A c \in Conns :
          (/\ loc[c].op = "submit_wager"
           /\ InSeq(state.current_clue, state.daily_doubles)
           /\ dd_state.stage = "revealed"
           /\ dd_state.player_number \in Seats
           /\ loc[c].player_number # dd_state.player_number)
              => /\ dd_state' = dd_state
                 /\ bcast' = bcast
                 /\ Idle(c)' => reply'[c].type = "error"]_vars

\* C15: submit_wager decides on the seat's score and the round as they are
\* stored; it goes on to store the wager exactly when
\* 5 <= wager <= max(cap, score), cap being 1000 in the single and 2000 in
\* the double round, and otherwise ends with an error frame; every wager
\* written to dd_state is within these bounds at the write.
DDWagerWithinBounds ==
    [][\A c \in Conns :
          LET cap(r) == IF r = "single" THEN 1000 ELSE 2000
              top(r, sc) == IF sc > cap(r) THEN sc ELSE cap(r)
              seat == loc[c].player_number
              within == /\ 5 <= loc[c].wager
                        /\ loc[c].wager <= top(state.current_round, scores[seat])
          IN
          /\ SubmitWagerValidate(c) =>
                IF within
                THEN At(c, "set_dd_state")' /\ reply' = reply
                ELSE Idle(c)' /\ reply'[c].type = "error"
          /\ (loc[c].op = "submit_wager" /\ SetDDState(c)) =>
                /\ dd_state'.wager = loc[c].wager
                /\ within]_vars

\* a seat with 2500 wagered all of it in the single round, after a wager was
\* refused on the same connection
DDWagerWithinBoundsWitness ==
    /\ bcast.type = "wager_submitted"
    /\ dd_state.stage = "wagering"
    /\ dd_state.wager = 2500
    /\ scores[dd_state.player_number] = 2500
    /\ state.current_round = "single"
    /\ reply[1].type = "error"

\* C16: the reveal of a clue of daily_doubles broadcasts daily_double_detected
\* and never clue_revealed, and the broadcasts that come before show_dd_clue
\* (daily_double_detected, daily_double_revealed, wager_submitted) carry
\* neither the clue nor its question or answer.
DailyDoubleClueWithheld ==
    [][/\ \A c \in Conns :
             (/\ loc[c].op = "reveal_clue"
              /\ InSeq(loc[c].clue_id, state.daily_doubles)
              /\ bcast' # bcast)
                 => bcast'.type = "daily_double_detected"
       /\ bcast'.type \in {"daily_double_detected", "daily_double_revealed",
                           "wager_submitted"}
             => DOMAIN bcast' \cap {"clue", "question", "answer"} = {}]_vars

\* the Daily Double was detected, revealed and wagered on, and the last
\* broadcast is the wager
DailyDoubleClueWithheldWitness ==
    /\ AllIdle
    /\ InSeq(state.current_clue, state.daily_doubles)
    /\ dd_state.stage = "wagering"
    /\ bcast.type = "wager_submitted"

\* C17: while a Daily Double is the current clue, its stage only moves one
\* step along detected, revealed, wagering, answering, judged (next_clue
\* clears it and reveal_clue starts it), and dd_clue_shown is only broadcast
\* once a wager is stored.
DDStageMovesInOrder ==
    [][LET chain == <<"detected", "revealed", "wagering", "answering",
                      "judged">>
       IN
       /\ (/\ InSeq(state.current_clue, state.daily_doubles)
           /\ dd_state.stage # ""
           /\ dd_state'.stage # dd_state.stage)
             => \/ dd_state' = EmptyDD
                \/ \E c \in Conns : RevealSetDDState(c)
                \/ \E i \in 1 .. 4 : /\ dd_state.stage = chain[i]
                                      /\ dd_state'.stage = chain[i + 1]
       /\ (/\ InSeq(state.current_clue, state.daily_doubles)
           /\ bcast' # bcast
           /\ bcast'.type = "dd_clue_shown")
             => dd_state.wager # NoWager]_vars

\* C18: submit_fj_wager stores the wager exactly when
\* 0 <= wager <= max(0, score) for the seat's stored score; any other wager
\* ends in an error frame to the sender, with no wager stored and nothing
\* broadcast.
FJWagerWithinBounds ==
    [][\A c \in Conns :
          LET seat == loc[c].player_number
              top == IF scores[seat] > 0 THEN scores[seat] ELSE 0
              within == 0 <= loc[c].wager /\ loc[c].wager <= top
          IN
          /\ SubmitFJWagerValidate(c) =>
                IF within
                THEN At(c, "fw_set_fj_wager")' /\ reply' = reply
                ELSE Idle(c)' /\ reply'[c].type = "error"
          /\ (loc[c].op = "submit_fj_wager" /\ ~within) =>
                fj_wagers' = fj_wagers /\ bcast' = bcast
          /\ SubmitFJWagerSetFJWager(c) =>
                within /\ fj_wagers'[seat] = loc[c].wager]_vars

\* a seat with 400 wagered all of it, after a wager was refused
FJWagerWithinBoundsWitness ==
    /\ AllIdle
    /\ bcast.type = "fj_wager_submitted"
    /\ fj_wagers[bcast.player_number] = 400
    /\ scores[bcast.player_number] = 400
    /\ reply[1].type = "error"
    /\ reply[1].message = "Invalid wager"

\* C19: when the handler of a judge_fj_answer ends with every seat of the
\* roster judged, the game's status is completed, every participant row
\* holds the seat's score of the store, and the last broadcast is
\* game_completed with the seats' scores.
GameCompletedWhenAllJudged ==
    [][\A c \in Conns :
          (/\ loc[c].op = "judge_fj_answer"
           /\ Idle(c)'
           /\ \A s \in Seats : fj_judged[s] # "nil")
              => /\ game_status' = "completed"
                 /\ participant' = scores'
                 /\ bcast' = [type |-> "game_completed",
                              final_scores |-> scores']]_vars

\* both seats were judged, one of them winning its wager of 400, and the
\* game is completed
GameCompletedWhenAllJudgedWitness ==
    /\ AllIdle
    /\ \A s \in Seats : fj_judged[s] # "nil"
    /\ \E s \in Seats : fj_wagers[s] = 400 /\ scores[s] = 800
    /\ game_status = "completed"
    /\ bcast.type = "game_completed"

\* C20: an end_game (abandon_game) frame on a session that is neither
\* completed nor abandoned has, once the connection is done with it, written
\* the scores to the participant rows, set the status to completed
\* (abandoned) and broadcast game_completed (game_abandoned).
EndGameFrameEndsGame ==
    [][\A c \in Conns :
          /\ (/\ ReceiveUnknown(c, "end_game")
              /\ game_status \notin {"completed", "abandoned"}
              /\ Idle(c)')
                => /\ game_status' = "completed"
                   /\ participant' = scores'
                   /\ bcast'.type = "game_completed"
          /\ (/\ ReceiveUnknown(c, "abandon_game")
              /\ game_status \notin {"completed", "abandoned"}
              /\ Idle(c)')
                => /\ game_status' = "abandoned"
                   /\ participant' = scores'
                   /\ bcast'.type = "game_abandoned"]_vars

\* C21: once the game's status is completed or abandoned, no step changes the
\* scores, the participant rows, the state hash, the Daily Double or Final
\* Jeopardy hashes or the status, and a frame answered at once (end_game and
\* abandon_game are) broadcasts nothing.
CompletedSessionFrozen ==
    [][(game_status \in {"completed", "abandoned"}) =>
          (/\ UNCHANGED <<scores, participant, state, current_player, dd_state,
                          fj_wagers, fj_judged, game_status>>
           /\ \A c \in Conns :
                 (Idle(c) /\ Idle(c)' /\ reply'[c] # reply[c])
                     => bcast' = bcast)]_vars

\* C22: when the handler of reset_game ends, every seat's score is 0 in the
\* store and in its participant row, revealed_clues is empty, current_round
\* is single, current_clue and current_player are unset, dd_state is
\* cleared, attempted_players is empty, the buzzer hash and the order list
\* hold nothing but the buzzes accepted since the handler deleted them, and
\* the last broadcast is game_reset with every seat at 0.
ResetGameClearsSession ==
    [][\A c \in Conns :
          (loc[c].op = "reset_game" /\ ~Idle(c) /\ Idle(c)')
              => /\ \A s \in Seats : scores'[s] = 0 /\ participant'[s] = 0
                 /\ state'.revealed_clues = <<>>
                 /\ state'.current_round = "single"
                 /\ state'.current_clue = NoClue
                 /\ current_player' = NoSeat
                 /\ dd_state' = EmptyDD
                 /\ attempted_players' = {}
                 /\ Len(order') <= Len(epoch')
                 /\ epoch' = <<>> => buzzer' = EmptyBuzzer
                 /\ bcast' = [type |-> "game_reset",
                              scores |-> [s \in Seats |-> 0]]]_vars

\* a game whose double round had been started was reset: the round is single
\* again, no seat has control, and the seats' scores, of which the audit
\* rows still tell, are gone
ResetGameClearsSessionWitness ==
    /\ AllIdle
    /\ bcast.type = "game_reset"
    /\ \A s \in Seats : audit_delta[s] # 0 /\ scores[s] = 0
    /\ lastAction.action_type = "start_round"
    /\ lastAction.round = "double"
    /\ state.current_round = "single"
    /\ current_player = NoSeat

RoundAdvancesByStartRound ==
    [][/\ state'.current_round \in {"single", "double", "final"}
       /\ state'.current_round # state.current_round =>
             \E c \in Conns :
                \/ /\ loc[c].op = "reset_game"
                   /\ state'.current_round = "single"
                \/ /\ loc[c].op = "start_round"
                   /\ <<state.current_round, state'.current_round>> \in
                         {<<"single", "double">>, <<"double", "final">>}]_vars

\* C25: whenever no handler is in flight, every participant row holds the
\* score the store holds for its seat, also after handlers that changed the
\* score of one seat ran at once on two connections.
ParticipantMirrorsScore ==
    AllIdle => \A s \in Seats : participant[s] = scores[s]

\* C26: once the game is completed and no handler is in flight, every
\* participant row holds the sum of the signed score deltas of the seat's
\* audit rows.
AuditLogSumsToScore ==
    (game_status = "completed" /\ AllIdle)
        => \A s \in Seats : participant[s] = audit_delta[s]

\* C27: when the handler of a command ends, the audit row appended last is
\* the row of that command.
AuditEventPerCommand ==
    [][\A c \in Conns :
          (~Idle(c) /\ Idle(c)') => lastAction'.action_type = loc[c].op]_vars

\* C28: a frame that lacks a required field (reveal_clue without clue_id,
\* start_round without round) or is of an unknown type changes nothing in
\* the store or the database and broadcasts nothing, in any call made for
\* it, and the client is answered with an error frame.
InvalidFrameOnlyErrorFrame ==
    [][\A c \in Conns :
          /\ (/\ \/ (loc[c].op = "reveal_clue" /\ loc[c].clue_id = NoClue)
                  \/ (loc[c].op = "start_round" /\ loc[c].round_type = "")
               /\ pc'[c] # pc[c])
                 => /\ UNCHANGED <<redisVars, dbVars, bcast>>
                    /\ Idle(c)' => reply'[c].type = "error"
          /\ (Idle(c) /\ Idle(c)' /\ reply'[c] # reply[c])
                 => /\ UNCHANGED <<redisVars, dbVars, bcast>>
                    /\ reply'[c].type = "error"]_vars

RevealClueOnlyWhenIdle ==
    [][\A c \in Conns :
          (RevealUpdateState(c) /\ state.current_clue # NoClue)
              => /\ state' = state
                 /\ Idle(c)'
                 /\ reply'[c].type = "error"]_vars

\* C31: every call of the next_clue handler leaves scores, revealed_clues,
\* current_round and current_player as they are; when the handler ends,
\* attempted_players, current_clue and dd_state are cleared, the buzzer hash
\* and the order list hold nothing but the buzzes accepted since the handler
\* deleted them, and return_to_board carries the scores and the revealed
\* set; and while no clue is current (the game is idle) none of its calls up
\* to the one clearing current_clue changes anything in the store.
NextClueClearsClueState ==
    [][\A c \in Host :
          (loc[c].op = "next_clue" /\ pc'[c] # pc[c])
              => /\ UNCHANGED <<scores, current_player>>
                 /\ state'.revealed_clues = state.revealed_clues
                 /\ state'.current_round = state.current_round
                 /\ Idle(c)'
                       => /\ attempted_players' = {}
                          /\ state'.current_clue = NoClue
                          /\ dd_state' = EmptyDD
                          /\ Len(order') <= Len(epoch')
                          /\ epoch' = <<>> => buzzer' = EmptyBuzzer
                          /\ bcast' = [type |-> "return_to_board",
                                       scores |-> scores,
                                       revealed_clues |-> state.revealed_clues]
                 /\ (state.current_clue = NoClue
                        /\ Head(pc[c]) \in {"del_buzzer", "del_order",
                                            "del_attempted",
                                            "nc_clear_current_clue"})
                       => UNCHANGED redisVars]_vars

\* C32: once the state hash holds the live state (episode_id is in it), no
\* call of a connect - a later one, or one running alongside the first
\* connect or the host's commands - changes daily_doubles, the scores,
\* revealed_clues, current_round or current_clue.
LiveStateMaterializedOnce ==
    [][\A c \in Conns :
          (loc[c].op = "connect" /\ pc'[c] # pc[c] /\ state.episode_id # 0)
              => /\ state'.daily_doubles = state.daily_doubles
                 /\ state'.revealed_clues = state.revealed_clues
                 /\ state'.current_round = state.current_round
                 /\ state'.current_clue = state.current_clue
                 /\ scores' = scores]_vars

\* C33: handlers of different connections behave as if run one after the
\* other; checked on reveal_clue frames arriving on two connections: a
\* reveal_clue that writes the state hash adds its clue to revealed_clues as
\* they are in the store at that moment, so no clue id revealed by the other
\* connection is lost, and after reveals of two distinct clues both ids are
\* in the list.
RevealClueLinearizable ==
    [][\A c \in Conns :
          RevealUpdateState(c)
              => \A clue \in ClueIds :
                    InSeq(clue, state.revealed_clues)
                        => InSeq(clue, state'.revealed_clues)]_vars

\* C34: when the audit row of a handler fails to be written (the handler is
\* at its log_action call and the call ends with no row appended), the
\* handler goes on to the broadcast that follows the call and the client
\* gets no error frame.
AuditFailureDoesNotFailHandler ==
    [][\A c \in Host :
          (/\ ~Idle(c)
           /\ Head(pc[c]) \in {"ja_log_action", "sr_log_action",
                               "sw_log_action", "da_log_action",
                               "jd_log_action"}
           /\ pc'[c] # pc[c]
           /\ lastAction' = lastAction)
              => /\ pc'[c] = Tail(pc[c])
                 /\ reply'[c] = reply[c]]_vars

\* C40: the fields of the scores hash are the seats of the roster, and
\* current_player and dd_state.player_number, when set, are seats of the
\* roster.
ScoresOnlyForRoster ==
    /\ DOMAIN scores = DOMAIN roster
    /\ current_player \in DOMAIN roster \cup {NoSeat}
    /\ dd_state.player_number \in DOMAIN roster \cup {NoSeat}

\* C35: in a judge_dd_answer for a Daily Double whose player is known and
\* whose wager w was accepted (dd_state holds both), the score update
\* changes the score of the Daily Double player by +w when correct and by -w
\* when incorrect and no other score; the handler changes current_player
\* only when correct, and when it ends dd_state.stage is judged and, if
\* correct, current_player is the Daily Double player.
JudgeDDAnswerAppliesWager ==
    [][\A c \in Host :
          (/\ loc[c].op = "judge_dd_answer"
           /\ pc'[c] # pc[c]
           /\ dd_state.player_number \in Seats
           /\ dd_state.wager # NoWager)
              => /\ current_player' # current_player => loc[c].correct
                 /\ At(c, "update_score_by_wager")
                       => scores' = [scores EXCEPT
                                        ![dd_state.player_number] =
                                            @ + ScoreDelta(loc[c].correct,
                                                           dd_state.wager)]
                 /\ Idle(c)'
                       => /\ dd_state'.stage = "judged"
                          /\ loc[c].correct
                                => current_player' = dd_state.player_number]_vars

\* C36: while no clue is current (current_clue is empty), the result of a
\* buzz, whatever seat sends it and whatever token it carries, is not
\* accepted.
NoBuzzAcceptedWithoutClue ==
    [][\A s \in Seats :
          (BuzzStep(s) /\ state.current_clue = NoClue)
              => ~bcast'.accepted]_vars

\* C37: in every reachable state, the states between the deletes of
\* reset_buzzer and clear_buzzer_for_retry included, buzzer.count is the
\* length of the buzz-order list, no seat is in the list twice, and
\* buzzer.winner, when set, is the first seat of the list.
BuzzerCountMatchesOrder ==
    /\ buzzer.count = Len(order)
    /\ \A i, j \in 1 .. Len(order) : i # j => order[i] # order[j]
    /\ buzzer.winner # NoSeat => (Len(order) > 0 /\ order[1] = buzzer.winner)

\* C38: check_and_complete_game saves the status completed and broadcasts
\* game_completed only when every seat of the roster has a judgment in the
\* judged hash, which is all it looks at; and a judgment recorded before a
\* reset_game is not in that hash any more when the reset has ended, so
\* that it cannot count for the game played after it.
CompletionNeedsRosterJudged ==
    [][\A c \in Host :
          /\ (CheckSaveStatus(c) \/ CheckSendGameCompleted(c))
                => \A s \in DOMAIN roster : fj_judged[s] # "nil"
          /\ (loc[c].op = "reset_game" /\ ~Idle(c) /\ Idle(c)')
                => \A s \in DOMAIN fj_judged : fj_judged'[s] = "nil"]_vars

\* C39: a judge_fj_answer for a seat that already has a judgment leaves the
\* seat's score as it is, and check_and_complete_game does not complete
\* (save the status and broadcast game_completed for) a game whose status
\* is completed already.
FJWagerAppliedOnce ==
    [][\A c \in Host :
          /\ (/\ loc[c].op = "judge_fj_answer"
              /\ UpdateScoreByWager(c)
              /\ fj_judged[loc[c].player_number] # "nil")
                => scores' = scores
          /\ CheckSaveStatus(c) => game_status # "completed"]_vars

====
